---- MODULE Spec2Model ----
(***************************************************************************)
(* Multi-provider aggregation and resolution engine of the OnlyMusic PWA:  *)
(* the mirror-instance providers (Piped, Invidious) with their rotation    *)
(* cursor, the Aggregator (YtPuttyApi.search, PwaApi.search) and the       *)
(* Resolver (YtPuttyApi.resolveStream, PwaApi.resolveStream,               *)
(* MusicApp.resolveStream).                                                *)
(*                                                                         *)
(* Two revisions of the provider classes exist in the repository:          *)
(*   "lib"  src/pwa/lib/yt-putty/providers.js (retry loop in the mirrors)  *)
(*   "pwa"  src/unnamed/part_000 (pwa-providers.js, one request per call)  *)
(*                                                                         *)
(* An action is one run of JavaScript between two suspension points: the   *)
(* code runs to its next await, and the answer of the network resumes it.  *)
(***************************************************************************)
EXTENDS Integers, Sequences, FiniteSets, TLC

VARIABLES
    rev,        \* revision of the provider classes: "lib" | "pwa"
    api,        \* class under test: "YtPuttyApi" | "PwaApi" | "MusicApp" | "provider"
    config,     \* the configuration object handed to the constructors
    built,      \* [mirror key -> "unbuilt" | "built" | "threw"]: constructor outcome
    mirror,     \* [mirror key -> [instances, currentIndex]]: the provider objects
    call,       \* [mirror key -> [op -> call record]]: provider calls in flight
    rotCnt,     \* [cursor -> rotate() calls since construction, modulo the list's length]
    stubbed,    \* TRUE when api.providers holds test doubles instead of the classes
    sPhase,     \* Aggregator.search: "idle" | "running" | "returned"
    task,       \* [provider key -> status of its fan-out promise]
    allResults, \* the array Promise.all fills, one slot per promise of the fan-out
    resp,       \* [provider key -> records the provider got from its service]
    threw,      \* [provider key -> its search threw at the fan-out boundary]
    lateFirst,  \* a promise settled while one declared before it was pending
    caughtRotate,   \* [key -> rotate() calls of the fan-out catch in this search]
    sOut,       \* what Aggregator.search returned
    rPhase,     \* Resolver: "idle" | "running" | "returned"
    hint,       \* sourceHint of the resolve call
    order,      \* providers the resolve call still has to try, in trial order
    invoked,    \* providers whose resolve the call has invoked, in order
    outcome,    \* [provider key -> how its resolve ended in this call]
    rotated,    \* providers whose rotate() the resolve call has called
    rOut,       \* what the Resolver returned
    heard,      \* [key -> the last answer to the provider's resolve request]
    cPhase,     \* composite provider's search: "idle" | "running" | "returned"
    cQuery,     \* the query of the composite search
    cOrder,     \* sub-providers the composite search still has to try
    cTried,     \* sub-providers whose search it has invoked, in order
    cGot,       \* [sub-provider key -> how its search ended in this call]
    cOut,       \* the records the composite search returned
    disabledInBrowser,  \* YouTubeiProvider: running in a browser, not allowed
    direct,     \* the last resolve called on a provider itself: its key, its end
    clientId,   \* SoundCloudProvider.clientId ("" is null)
    idCall,     \* the calls of getClientId in progress, by caller
    tracks,     \* MusicApp.tracks, as the sequence of the tracks' videoIds
    currentTrackIndex,  \* MusicApp.currentTrackIndex
    pendingOps, \* MusicApp's search, loadGallery and loadSimilar at their await
    audioSrc,   \* the videoId whose audio the player holds ("" is no source)
    plays,      \* the playTrack calls at an await, by call
    searchBusy, \* MusicApp: the search button is disabled (setSearchBusy)
    searches,   \* MusicApp: the search() calls in progress, by caller
    terminalSelectionIndex, \* MusicApp: the row the terminal view has selected
    sw,         \* service worker: the fetch event being handled
    swCache,    \* service worker: the requests the cache holds a response for
    logger,     \* Logger: maxEntries and the entries logged so far
    persisted   \* Logger: the list under storageKey in localStorage

mirrorVars == <<built, mirror, call, rotCnt>>
searchVars ==
    <<stubbed, sPhase, task, allResults, resp, threw, lateFirst, caughtRotate, sOut>>
resolveVars == <<rPhase, hint, order, invoked, outcome, rotated, rOut, heard>>
compositeVars == <<cPhase, cQuery, cOrder, cTried, cGot, cOut, disabledInBrowser>>
credentialVars == <<clientId, idCall>>
playerVars ==
    <<tracks, currentTrackIndex, pendingOps, audioSrc, plays, searchBusy, searches,
      terminalSelectionIndex>>
workerVars == <<sw, swCache, logger, persisted>>
appVars == <<compositeVars, direct, credentialVars, playerVars, workerVars>>
vars == <<rev, api, config, mirrorVars, searchVars, resolveVars, appVars>>

(***************************************************************************)
(* Bounds of the model.                                                    *)
(***************************************************************************)
\* longest api_instances list a configuration supplies
MaxCfgInstances == 2

(***************************************************************************)
(* Values.                                                                 *)
(***************************************************************************)
\* JavaScript's NaN, the value of x % 0, kept apart from every index
NaN == -1

Min(a, b) == IF a < b THEN a ELSE b

\* Array.prototype.flat over an array of arrays, in index order
RECURSIVE Flat(_)
Flat(ss) == IF ss = <<>> THEN <<>> ELSE Head(ss) \o Flat(Tail(ss))

\* Array.prototype.slice(0, n)
Slice(s, n) == SubSeq(s, 1, Min(n, Len(s)))

Range(s) == {s[i] : i \in 1..Len(s)}

(***************************************************************************)
(* Configuration and the mirror providers' constructors.                   *)
(***************************************************************************)
MirrorKeys == {"pi", "iv"}

\* the mirror providers and the CLI test tool's instance cursor
Cursors == MirrorKeys \cup {"cli"}

\* the `type` tag of the api_instances entries a mirror provider keeps
TypeOf(k) == IF k = "pi" THEN "piped" ELSE "invidious"

CfgUrls == <<"https://cfg-1", "https://cfg-2", "https://cfg-3", "https://cfg-4">>

\* the api_instances lists a configuration may carry
ApiInstanceLists ==
    UNION {{[i \in 1..n |-> [type |-> ty[i], url |-> CfgUrls[i]]] :
                ty \in [1..n -> {"piped", "invidious"}]} :
           n \in 0..MaxCfgInstances}

\* `undefined` (no argument), `{}`, or an object with api_instances
NoArgument == [arg |-> "undefined", has |-> FALSE, api_instances |-> <<>>]
EmptyObject == [arg |-> "object", has |-> FALSE, api_instances |-> <<>>]
Configs ==
    {NoArgument, EmptyObject}
        \cup {[arg |-> "object", has |-> TRUE, api_instances |-> l] :
                l \in ApiInstanceLists}

\* API_INSTANCES of the CLI test tool
CliInstances ==
    << [type |-> "invidious", url |-> "https://iv.melmac.space"],
       [type |-> "invidious", url |-> "https://invidious.reallyaweso.me"],
       [type |-> "invidious", url |-> "https://invidious.protokolla.fi"],
       [type |-> "piped", url |-> "https://pipedapi.kavin.rocks"] >>

\* the hardcoded endpoint lists
DefaultInstances(r, k) ==
    IF r = "cli" THEN CliInstances
    ELSE IF r = "lib"
    THEN IF k = "pi"
         THEN << [url |-> "https://pipedapi.kavin.rocks"],
                 [url |-> "https://api.piped.privacy.com.de"],
                 [url |-> "https://api.piped.ot.ax"] >>
         ELSE << [url |-> "https://iv.melmac.space"],
                 [url |-> "https://vid.puffyan.us"],
                 [url |-> "https://inv.nadeko.net"],
                 [url |-> "https://invidious.privacydev.net"] >>
    ELSE IF k = "pi"
         THEN << [url |-> "https://pipedapi.kavin.rocks"] >>
         ELSE << [url |-> "https://iv.melmac.space"] >>

\* config.api_instances?.filter(i => i.type === <type>) || <defaults>
\* (an empty array is truthy, so `||` keeps it)
OfType(l, ty) ==
    LET Keep(i) == i.type = ty
    IN SelectSeq(l, Keep)

\* pwa-test.js: if (config.api_instances) API_INSTANCES = config.api_instances
InstancesOf(r, k, cfg) ==
    IF ~cfg.has THEN DefaultInstances(r, k)
    ELSE IF r = "cli" THEN cfg.api_instances
    ELSE OfType(cfg.api_instances, TypeOf(k))

\* "lib": constructor(config = {}) -- a missing argument becomes {}.
\* "pwa": constructor(config) -- config.api_instances of undefined is a TypeError.
ConstructorThrows(r, cfg) == r = "pwa" /\ cfg.arg = "undefined"

NewMirror(r, k, cfg) == [instances |-> InstancesOf(r, k, cfg), currentIndex |-> 0]

NotBuilt == [instances |-> <<>>, currentIndex |-> 0]

(***************************************************************************)
(* rotate()                                                                *)
(***************************************************************************)
\* JavaScript's (a + 1) % n on numbers: NaN when n is 0 or a is NaN
IncMod(a, n) == IF a = NaN \/ n = 0 THEN NaN ELSE (a + 1) % n

\* a rotate() that forgets to wrap around
RotateNoWrap(m) == [m EXCEPT !.currentIndex = @ + 1]

Rotate(m) == [m EXCEPT !.currentIndex = IncMod(m.currentIndex, Len(m.instances))]

\* n rotate() calls more, counted modulo the list's length
Count(m, cnt, n) == IF Len(m.instances) = 0 THEN 0 ELSE (cnt + n) % Len(m.instances)

(***************************************************************************)
(* Track records.  A string is the sequence of its characters.             *)
(***************************************************************************)
\* String.prototype.toLowerCase, character by character
LowerChar(c) ==
    CASE c = "T" -> "t"
      [] c = "H" -> "h"
      [] OTHER -> c

ToLowerCase(str) == [i \in 1..Len(str) |-> LowerChar(str[i])]

\* the items a service answers a search with: {title, id}
Item(t, id) == [title |-> t, videoId |-> id]

ItemA == Item(<<"T", "h">>, <<"1">>)
ItemB == Item(<<"T", "H">>, <<"1">>)
ItemC == Item(<<"T", "h">>, <<"2">>)
\* two tracks whose title and id differ but whose `title_id` strings agree
ItemD == Item(<<"T", "h">>, <<"1", "_", "2">>)
ItemE == Item(<<"T", "h", "_", "1">>, <<"2">>)

\* the result lists a service may answer with
SearchPayloads == { <<>>, <<ItemA, ItemD>>, <<ItemB, ItemC, ItemB, ItemE>> }

\* results are cut to the first ten: .slice(0, 10)
MaxResults == 10

\* the provider's map of the service's items to track records
ToRecords(items, src, name) ==
    Slice([i \in 1..Len(items) |->
              [title |-> items[i].title, videoId |-> items[i].videoId,
               source |-> src, provider |-> name]],
          MaxResults)

\* the stream descriptors a service answers a resolve with
Stream(ty, rate, u) == [type |-> ty, bitrate |-> rate, url |-> u]

AudioLo == Stream("audio", 64, "https://stream/audio-64")
AudioHi == Stream("audio", 128, "https://stream/audio-128")
Video == Stream("video", 900, "https://stream/video-900")

\* Piped answers with audioStreams, Invidious with adaptiveFormats
StreamPayloads(k) ==
    IF k = "pi" THEN { <<>>, <<AudioLo, AudioHi>> }
    ELSE { <<>>, <<Video>>, <<AudioLo, Video, AudioHi>> }

\* a pick of the first descriptor listed
FirstListed(streams) == streams[1]

\* .sort((a, b) => b.bitrate - a.bitrate)[0]: the first entry of highest bitrate
Best(streams) ==
    LET top == CHOOSE i \in 1..Len(streams) :
                 /\ \A j \in 1..Len(streams) : streams[j].bitrate <= streams[i].bitrate
                 /\ \A j \in 1..(i - 1) : streams[j].bitrate < streams[i].bitrate
    IN streams[top]

\* Piped: data.audioStreams; Invidious: adaptiveFormats.filter(type starts with audio)
AudioOf(k, streams) ==
    LET IsAudio(f) == f.type = "audio"
    IN IF k = "pi" THEN streams ELSE SelectSeq(streams, IsAudio)

\* what the network answers one request with
\*   "fail": the fetch rejects (network error, timeout) or the body is malformed
\*   "http": a response whose status is not 2xx
\*   "ok":   a 2xx response carrying items (search) or streams (resolve)
Answers(k, op) ==
    {[kind |-> "fail", items |-> <<>>, streams |-> <<>>],
     [kind |-> "http", items |-> <<>>, streams |-> <<>>]}
    \cup (IF op = "search"
          THEN {[kind |-> "ok", items |-> p, streams |-> <<>>] : p \in SearchPayloads}
          ELSE {[kind |-> "ok", items |-> <<>>, streams |-> p] : p \in StreamPayloads(k)})

(***************************************************************************)
(* One call of search or resolve on a mirror provider.                     *)
(*   st       "idle" | "fetch" (a request is in flight) | "done"           *)
(*   attempt  the loop counter of the retry loop                           *)
(*   log      the endpoints (indexes) requested so far, in order           *)
(*   start    currentIndex when the call began                             *)
(*   alone    no other call or rotate() touched the provider meanwhile     *)
(*   out      how the call ended                                           *)
(***************************************************************************)
Ops == {"search", "resolve"}

NoOut == [kind |-> "none", items |-> <<>>, url |-> "", answered |-> FALSE]
Thrown == [NoOut EXCEPT !.kind = "throw"]
\* the fall-through of the retry loop: return [] / return null
Exhausted(op) == [NoOut EXCEPT !.kind = IF op = "search" THEN "items" ELSE "null"]
Items(recs) == [NoOut EXCEPT !.kind = "items", !.items = recs, !.answered = TRUE]
Url(u) == [NoOut EXCEPT !.kind = "url", !.url = u, !.answered = TRUE]
Null == [NoOut EXCEPT !.kind = "null", !.answered = TRUE]

IdleCall ==
    [st |-> "idle", op |-> "search", attempt |-> 0, log |-> <<>>, start |-> 0,
     alone |-> TRUE, out |-> NoOut]

NewCall(m, op) == [IdleCall EXCEPT !.op = op, !.start = m.currentIndex]

Finish(c, o) == [c EXCEPT !.st = "done", !.out = o]

\* the `source` tag and the `name` of the provider classes
SourceTag(k) ==
    CASE k = "yt" -> "YT" [] k = "am" -> "AM" [] k = "pi" -> "PI" [] k = "iv" -> "IV"
      [] k = "sc" -> "SC" [] k = "yp" -> "yt-putty" [] k = "ai" -> "AI" [] k = "sm" -> "SM"
      [] OTHER -> "stub"

ProviderName(k) ==
    CASE k = "yt" -> "YouTube" [] k = "am" -> "Audiomack" [] k = "pi" -> "Piped"
      [] k = "iv" -> "Invidious" [] k = "sc" -> "SoundCloud" [] k = "yp" -> "yt-putty"
      [] k = "ai" -> "AI Gallery" [] k = "sm" -> "Similar Music"
      [] OTHER -> "Stub"

\* const instance = this.instances[this.currentIndex].url; fetch(...)
\* (.url of undefined is a TypeError)
Request(m, c) ==
    IF m.currentIndex >= 0 /\ m.currentIndex < Len(m.instances)
    THEN [c EXCEPT !.st = "fetch", !.log = Append(@, m.currentIndex)]
    ELSE Finish(c, Thrown)

\* a retry loop without a bound
LoopUnbounded(m, c) == Request(m, c)

\* "lib": for (let attempt = 0; attempt < this.instances.length; attempt++)
Loop(m, c) ==
    IF c.attempt < Len(m.instances) THEN Request(m, c) ELSE Finish(c, Exhausted(c.op))

\* the provider and the call after the call's first run to its await
Begin(r, m, op) ==
    IF r = "pwa" THEN Request(m, NewCall(m, op)) ELSE Loop(m, NewCall(m, op))

\* the catch block of a retry loop, and the loop's attempt++
RetryAfterCatch(m, c) ==
    [m |-> Rotate(m), c |-> Loop(Rotate(m), [c EXCEPT !.attempt = @ + 1]), rot |-> 1]

\* "lib" resolve on a response without an audio stream: neither return nor
\* throw, so the loop goes on with attempt++ and the cursor where it was
RetrySameEndpoint(m, c) ==
    [m |-> m, c |-> Loop(m, [c EXCEPT !.attempt = @ + 1]), rot |-> 0]

Return(m, c, o) == [m |-> m, c |-> Finish(c, o), rot |-> 0]

\* "lib" search: a failed request rotates and retries, a response returns
LibSearchAnswer(k, m, c, ans) ==
    IF ans.kind = "ok"
    THEN Return(m, c, Items(ToRecords(ans.items, SourceTag(k), ProviderName(k))))
    ELSE RetryAfterCatch(m, c)

LibResolveAnswer(k, m, c, ans) ==
    IF ans.kind = "ok"
    THEN IF Len(AudioOf(k, ans.streams)) > 0
         THEN Return(m, c, Url(Best(AudioOf(k, ans.streams)).url))
         ELSE RetrySameEndpoint(m, c)
    ELSE RetryAfterCatch(m, c)

\* "pwa" search: if (!res.ok) throw; a rejected fetch throws as well
PwaSearchAnswer(k, m, c, ans) ==
    IF ans.kind = "ok"
    THEN Return(m, c, Items(ToRecords(ans.items, SourceTag(k), ProviderName(k))))
    ELSE Return(m, c, Thrown)

\* "pwa" resolve: if (!res.ok) return null; a rejected fetch throws
PwaResolveAnswer(k, m, c, ans) ==
    CASE ans.kind = "fail" -> Return(m, c, Thrown)
      [] ans.kind = "http" -> Return(m, c, Null)
      [] OTHER ->
            IF Len(AudioOf(k, ans.streams)) > 0
            THEN Return(m, c, Url(Best(AudioOf(k, ans.streams)).url))
            ELSE Return(m, c, Null)

\* the type of the endpoint the request in flight went to (pwa-test.js)
EndpointKind(m, c) ==
    IF m.instances[c.log[Len(c.log)] + 1].type = "piped" THEN "pi" ELSE "iv"

\* pwa-test.js performSearch / resolveStream: an empty answer is thrown as
\* "No results" / "No stream found" inside the try, so it rotates as well
CliAnswer(m, c, ans) ==
    LET kind == EndpointKind(m, c)
    IN IF ans.kind = "ok" /\ c.op = "search" /\ Len(ans.items) > 0
       THEN Return(m, c, Items(ToRecords(ans.items, SourceTag(kind), ProviderName(kind))))
       ELSE IF ans.kind = "ok" /\ c.op = "resolve" /\ Len(AudioOf(kind, ans.streams)) > 0
       THEN Return(m, c, Url(Best(AudioOf(kind, ans.streams)).url))
       ELSE RetryAfterCatch(m, c)

\* the provider and the call after the network answered the request in flight
Answer(r, k, m, c, ans) ==
    CASE r = "lib" -> IF c.op = "search" THEN LibSearchAnswer(k, m, c, ans)
                      ELSE LibResolveAnswer(k, m, c, ans)
      [] r = "pwa" -> IF c.op = "search" THEN PwaSearchAnswer(k, m, c, ans)
                      ELSE PwaResolveAnswer(k, m, c, ans)
      [] OTHER -> CliAnswer(m, c, ans)

(***************************************************************************)
(* The calls the Aggregator and the Resolver are not making.               *)
(***************************************************************************)
\* keys of api.providers, and of MusicApp's provider list
Keys == {"yt", "am", "pi", "iv", "sc", "ai", "yp", "sm", "a", "b"}

NoCalls == [k \in Cursors |-> [op \in Ops |-> IdleCall]]

SearchIdle ==
    /\ stubbed = FALSE
    /\ sPhase = "idle"
    /\ task = [k \in Keys |-> "none"]
    /\ allResults = <<>>
    /\ resp = [k \in Keys |-> <<>>]
    /\ threw = [k \in Keys |-> FALSE]
    /\ lateFirst = FALSE
    /\ caughtRotate = [k \in Keys |-> 0]
    /\ sOut = [kind |-> "none", items |-> <<>>]

NoAnswer == [kind |-> "none", items |-> <<>>, streams |-> <<>>]

ResolveIdle ==
    /\ rPhase = "idle"
    /\ hint = "YT"
    /\ order = <<>>
    /\ invoked = <<>>
    /\ outcome = [k \in Keys |-> NoOut]
    /\ rotated = {}
    /\ rOut = NoOut
    /\ heard = [k \in Keys |-> NoAnswer]

CompositeCallIdle ==
    /\ cPhase = "idle"
    /\ cQuery = ""
    /\ cOrder = <<>>
    /\ cTried = <<>>
    /\ cGot = [k \in Keys |-> NoOut]
    /\ cOut = <<>>

CompositeIdle == CompositeCallIdle /\ disabledInBrowser = FALSE

DirectIdle == direct = [key |-> "", out |-> NoOut]

\* the callers of getClientId whose calls may overlap
Callers == {"first", "second"}

IdleIdCall ==
    [st |-> "idle", cached |-> "", left |-> 0, requests |-> 0, found |-> "",
     out |-> [kind |-> "none", id |-> ""]]

CredentialIdle ==
    /\ clientId = ""
    /\ idCall = [i \in Callers |-> IdleIdCall]

NoPendingOps == [search |-> "idle", gallery |-> FALSE, similar |-> FALSE]

\* the playTrack calls that may overlap
PlayCalls == {"earlier", "later"}

IdlePlay == [st |-> "idle", videoId |-> ""]

\* where search() may be called from while another call is running
SearchCallers == {"enter", "terminal"}

IdleSearch ==
    [st |-> "idle", order |-> <<>>, queried |-> <<>>, rotated |-> <<>>,
     context |-> FALSE, got |-> [k \in Keys |-> "none"], added |-> 0]

NoSearches ==
    /\ searchBusy = FALSE
    /\ searches = [c \in SearchCallers |-> IdleSearch]
    \* this.terminalSelectionIndex = 0
    /\ terminalSelectionIndex = 0

Destinations == {"document", "script", "style", "manifest", "image", "font", "other"}

\* a request no fetch event has been raised for
NoRequest == [method |-> "GET", sameOrigin |-> TRUE, api |-> FALSE, destination |-> "other"]

IdleWorker ==
    [req |-> NoRequest, phase |-> "idle", net |-> "none", hit |-> "none",
     answer |-> "none", revalidating |-> FALSE]

\* constructor(maxEntries = 100, storageKey = 'onlymusic_logs')
DefaultMaxEntries == 100

WorkerIdle ==
    /\ sw = IdleWorker
    /\ swCache = {}
    /\ logger = [maxEntries |-> DefaultMaxEntries, history |-> <<>>]
    /\ persisted = <<>>

PlayerIdle ==
    /\ tracks = <<>>
    /\ currentTrackIndex = -1
    /\ pendingOps = NoPendingOps
    /\ audioSrc = ""
    /\ plays = [c \in PlayCalls |-> IdlePlay]
    /\ NoSearches

AppIdle == CompositeIdle /\ DirectIdle /\ CredentialIdle /\ PlayerIdle /\ WorkerIdle

(***************************************************************************)
(* Specification MirrorSpec: one provider object (a Piped or Invidious     *)
(* provider of either revision, or the CLI test tool's cursor), built from *)
(* any configuration and then driven by a sequence of search and resolve   *)
(* calls, with rotate() called from outside at any moment.                 *)
(***************************************************************************)
MirrorInit ==
    /\ \E k \in Cursors :
         /\ built = [j \in Cursors |-> IF j = k THEN "unbuilt" ELSE "absent"]
         /\ rev \in (IF k = "cli" THEN {"cli"} ELSE {"lib", "pwa"})
    /\ api = "provider"
    /\ config \in Configs
    /\ mirror = [k \in Cursors |-> NotBuilt]
    /\ call = NoCalls
    /\ rotCnt = [k \in Cursors |-> 0]
    /\ SearchIdle
    /\ ResolveIdle
    /\ AppIdle

\* new PipedProvider(config) / new InvidiousProvider(config) / loading pwa-test.js
Construct(k) ==
    /\ built[k] = "unbuilt"
    /\ IF ConstructorThrows(rev, config)
       THEN /\ built' = [built EXCEPT ![k] = "threw"]
            /\ UNCHANGED mirror
       ELSE /\ built' = [built EXCEPT ![k] = "built"]
            /\ mirror' = [mirror EXCEPT ![k] = NewMirror(rev, k, config)]
    /\ UNCHANGED <<appVars, rev, api, config, call, rotCnt, searchVars, resolveVars>>

Other(op) == IF op = "search" THEN "resolve" ELSE "search"

InFlight(c) == c.st = "fetch"

\* provider.search(query) / provider.resolve(videoId) runs to its first await
StartCall(k, op) ==
    /\ built[k] = "built"
    /\ \A o \in Ops : call[k][o].st = "idle"
    /\ call' = [call EXCEPT ![k][op] = Begin(rev, mirror[k], op)]
    /\ UNCHANGED <<appVars, rev, api, config, built, mirror, rotCnt, searchVars, resolveVars>>

\* the network answers the request in flight; the call runs to its next await
NetAnswer(k, op) ==
    /\ call[k][op].st = "fetch"
    /\ \E ans \in Answers(IF k = "cli" THEN EndpointKind(mirror[k], call[k][op]) ELSE k, op) :
         LET n == Answer(rev, k, mirror[k], call[k][op], ans)
         IN /\ mirror' = [mirror EXCEPT ![k] = n.m]
            /\ call' = [call EXCEPT ![k][op] = n.c,
                                    ![k][Other(op)].alone =
                                        @ /\ ~(n.rot > 0 /\ InFlight(call[k][Other(op)]))]
            /\ rotCnt' = [rotCnt EXCEPT ![k] = Count(mirror[k], @, n.rot)]
    /\ UNCHANGED <<appVars, rev, api, config, built, searchVars, resolveVars>>

\* the caller takes the call's result
Collect(k, op) ==
    /\ call[k][op].st = "done"
    /\ call' = [call EXCEPT ![k][op] = IdleCall]
    /\ UNCHANGED <<appVars, rev, api, config, built, mirror, rotCnt, searchVars, resolveVars>>

\* provider.rotate() called from outside (the catch blocks of the Aggregator
\* and the Resolver); rotateInstance() for the CLI test tool
CallerRotate(k) ==
    /\ built[k] = "built"
    /\ mirror' = [mirror EXCEPT ![k] = Rotate(@)]
    /\ rotCnt' = [rotCnt EXCEPT ![k] = Count(mirror[k], @, 1)]
    /\ call' = [call EXCEPT ![k] = [op \in Ops |->
                    [@[op] EXCEPT !.alone = @ /\ ~InFlight(call[k][op])]]]
    /\ UNCHANGED <<appVars, rev, api, config, built, searchVars, resolveVars>>

MirrorNext ==
    \E k \in Cursors :
        \/ Construct(k)
        \/ CallerRotate(k)
        \/ \E op \in Ops : StartCall(k, op) \/ NetAnswer(k, op) \/ Collect(k, op)

MirrorSpec == MirrorInit /\ [][MirrorNext]_vars

(***************************************************************************)
(* Claims about the mirror providers (MirrorSpec).                         *)
(***************************************************************************)
Built(k) == built[k] = "built"

Length(k) == Len(mirror[k].instances)

\* the call requested the endpoints start, start + 1, ... cyclically
CyclicFromStart(c, len) ==
    \A i \in 1..Len(c.log) : c.log[i] = (c.start + i - 1) % len

NoEndpointTwice(c) ==
    \A i, j \in 1..Len(c.log) : i # j => c.log[i] # c.log[j]

\* the call returned null, or returned [] without any response having succeeded
YieldsNothing(c) ==
    /\ c.st = "done"
    /\ \/ c.out.kind = "null"
       \/ c.out.kind = "items" /\ ~c.out.answered

\* C6: within one search or resolve call on a Piped or Invidious provider (no
\* other rotate() in between) the endpoints are requested in the cyclic
\* rotation sequence starting at currentIndex, none of them twice, and the
\* call yields empty/none only after every endpoint was requested once.
C6_EachEndpointOnce ==
    \A k \in MirrorKeys : \A op \in Ops :
        LET c == call[k][op]
        IN (Built(k) /\ c.st # "idle" /\ c.alone) =>
              /\ CyclicFromStart(c, Length(k))
              /\ NoEndpointTwice(c)
              /\ YieldsNothing(c) => Range(c.log) = 0..(Length(k) - 1)

\* C7: the instance list of a constructed mirror provider is non-empty and
\* currentIndex is a valid index into it, in every reachable state.
C7_CursorValid ==
    \A k \in MirrorKeys :
        Built(k) =>
            /\ Length(k) >= 1
            /\ mirror[k].currentIndex >= 0
            /\ mirror[k].currentIndex < Length(k)

\* C8: on a list of length L >= 1 every rotate() moves currentIndex to
\* (currentIndex + 1) mod L, so that after n rotate() calls the cursor stands
\* at n mod L and L calls bring it back to where it was.
C8_RotationCycle ==
    \A k \in Cursors :
        (Built(k) /\ Length(k) >= 1) => mirror[k].currentIndex = rotCnt[k]

\* a call whose every attempt failed has called rotate() exactly L times
\* (L >= 2) and the cursor is back where the call found it
C8_FullCycle ==
    \E k \in Cursors :
        LET c == call[k]["search"]
        IN /\ Built(k) /\ Length(k) >= 2
           /\ c.st = "done" /\ c.alone /\ ~c.out.answered
           /\ c.attempt = Length(k)
           /\ c.start > 0
           /\ mirror[k].currentIndex = c.start

\* C9: a mirror provider constructed with no configuration is constructed
\* successfully, with a non-empty default list and currentIndex 0.
C9_NoConfigFallback ==
    \A k \in MirrorKeys :
        (~config.has /\ built[k] # "unbuilt" /\ built[k] # "absent") =>
            /\ Built(k)
            /\ Length(k) >= 1
            /\ rotCnt[k] = 0 => mirror[k].currentIndex = 0

(***************************************************************************)
(* The Aggregator: YtPuttyApi.search ("lib" providers) and PwaApi.search   *)
(* ("pwa" providers).                                                      *)
(***************************************************************************)
\* this.providers, in insertion order; test doubles a and b when stubbed
Providers(a, stub) ==
    IF stub THEN <<"a", "b">>
    ELSE IF a = "YtPuttyApi" THEN <<"yt", "am", "pi", "iv", "sc", "ai">>
    ELSE IF a = "PwaApi" THEN <<"yt", "am", "pi", "iv", "sc">>
    ELSE <<"iv", "pi", "yp", "ai", "sm">>

\* capabilities.search of the provider classes
CanSearch(k) == k \notin {"ai", "sm"}

\* capabilities.resolve of the provider classes
CanResolve(k) == k \in {"pi", "iv", "yp"}

\* if (provider.rotate)
HasRotate(k) == k \in MirrorKeys

\* a fan-out without the filter on canSearch()
EveryProvider(a, stub) == Providers(a, stub)

\* the providers the search fans out to: YtPuttyApi filters on canSearch(),
\* PwaApi takes every entry
FanOut(a, stub) ==
    IF a = "YtPuttyApi" THEN SelectSeq(Providers(a, stub), CanSearch)
    ELSE Providers(a, stub)

\* results.map(r => ({ ...r, provider: provider.name }))
Stamp(recs, name) == [i \in 1..Len(recs) |-> [recs[i] EXCEPT !.provider = name]]

\* `${item.title.toLowerCase()}_${item.videoId}`
Key(item) == ToLowerCase(item.title) \o <<"_">> \o item.videoId

\* a loop that puts each new record in front: uniqueResults.unshift(item)
RECURSIVE UniqueUnshift(_, _, _)
UniqueUnshift(flat, seen, uniqueResults) ==
    IF flat = <<>> THEN uniqueResults
    ELSE IF Key(Head(flat)) \notin seen
         THEN UniqueUnshift(Tail(flat), seen \cup {Key(Head(flat))},
                            <<Head(flat)>> \o uniqueResults)
         ELSE UniqueUnshift(Tail(flat), seen, uniqueResults)

\* a loop whose `seen` set forgets a key when it meets it again
RECURSIVE UniqueToggle(_, _, _)
UniqueToggle(flat, seen, uniqueResults) ==
    IF flat = <<>> THEN uniqueResults
    ELSE IF Key(Head(flat)) \notin seen
         THEN UniqueToggle(Tail(flat), seen \cup {Key(Head(flat))},
                           Append(uniqueResults, Head(flat)))
         ELSE UniqueToggle(Tail(flat), seen \ {Key(Head(flat))}, uniqueResults)

\* the loop over flatResults with the `seen` set
RECURSIVE Unique(_, _, _)
Unique(flat, seen, uniqueResults) ==
    IF flat = <<>> THEN uniqueResults
    ELSE IF Key(Head(flat)) \notin seen
         THEN Unique(Tail(flat), seen \cup {Key(Head(flat))},
                     Append(uniqueResults, Head(flat)))
         ELSE Unique(Tail(flat), seen, uniqueResults)

Merge(flat) == Unique(flat, {}, <<>>)

\* a fan-out arrow function without its try/catch
NoCatch(k, o) ==
    [rejected |-> o.kind = "throw", value |-> Stamp(o.items, ProviderName(k)),
     rotate |-> FALSE]

\* a fan-out arrow function that calls rotate() however the search ended
RotatesAnyway(k, o) ==
    [rejected |-> FALSE,
     value |-> IF o.kind = "throw" THEN <<>> ELSE Stamp(o.items, ProviderName(k)),
     rotate |-> HasRotate(k)]

\* the fan-out arrow function around provider.search: its result is stamped,
\* its error is caught, answered with rotate() and turned into []
AtFanOut(k, o) ==
    IF o.kind = "throw"
    THEN [rejected |-> FALSE, value |-> <<>>, rotate |-> HasRotate(k)]
    ELSE [rejected |-> FALSE, value |-> Stamp(o.items, ProviderName(k)), rotate |-> FALSE]

EmptySlot == [set |-> FALSE, value |-> <<>>]

\* a join that stores the values in the order the promises settle
FulfilNextFree(all, i, v) ==
    LET free == CHOOSE j \in 1..Len(all) :
                    ~all[j].set /\ \A h \in 1..(j - 1) : all[h].set
    IN [all EXCEPT ![free] = [set |-> TRUE, value |-> v]]

\* Promise.all: the value of the i-th promise goes to index i
Fulfil(all, i, v) == [all EXCEPT ![i] = [set |-> TRUE, value |-> v]]

\* position of provider k in the fan-out
Position(fan, k) == CHOOSE i \in 1..Len(fan) : fan[i] = k

\* what the awaiting search does with the array: flat(), dedup, return
Returned(all) == [kind |-> "items", items |-> Merge(Flat([i \in 1..Len(all) |-> all[i].value]))]

Rejected == [kind |-> "rejected", items |-> <<>>]

(***************************************************************************)
(* Specification SearchSpec: Aggregator.search called again and again on   *)
(* one api object; the providers' requests are answered in any order.      *)
(***************************************************************************)
\* the api classes hand their own `config = {}` default on to the providers
ApiConfigs == {c \in Configs : c.arg = "object"}

RevOf(a) == IF a = "PwaApi" THEN "pwa" ELSE "lib"

\* new YtPuttyApi(config) / new PwaApi(config)
ApiInit(a) ==
    /\ api = a
    /\ rev = RevOf(a)
    /\ config \in ApiConfigs
    /\ built = [k \in Cursors |-> IF k \in MirrorKeys THEN "built" ELSE "absent"]
    /\ mirror = [k \in Cursors |->
                    IF k \in MirrorKeys THEN NewMirror(rev, k, config) ELSE NotBuilt]
    /\ call = NoCalls
    /\ rotCnt = [k \in Cursors |-> 0]

SearchInit ==
    /\ \E a \in {"YtPuttyApi", "PwaApi"} : ApiInit(a)
    /\ stubbed \in BOOLEAN
    /\ sPhase = "idle"
    /\ task = [k \in Keys |-> "none"]
    /\ allResults = <<>>
    /\ resp = [k \in Keys |-> <<>>]
    /\ threw = [k \in Keys |-> FALSE]
    /\ lateFirst = FALSE
    /\ caughtRotate = [k \in Keys |-> 0]
    /\ sOut = [kind |-> "none", items |-> <<>>]
    /\ ResolveIdle
    /\ AppIdle

\* search(query) up to `await Promise.all(searchPromises)`: every arrow
\* function has run to its first await.  A mirror whose call ends without a
\* request (an empty list) has settled its promise before any answer arrives.
SearchStart ==
    /\ sPhase = "idle"
    /\ LET fan == FanOut(api, stubbed)
           began == [k \in MirrorKeys |-> Begin(rev, mirror[k], "search")]
           Now(k) == k \in MirrorKeys /\ began[k].st = "done"
           now == [k \in MirrorKeys |-> AtFanOut(k, began[k].out)]
           rejects == \E k \in MirrorKeys \cap Range(fan) : Now(k) /\ now[k].rejected
       IN /\ task' = [k \in Keys |->
                        IF k \notin Range(fan) THEN "none"
                        ELSE IF Now(k) THEN "settled" ELSE "pending"]
          /\ allResults' = [i \in 1..Len(fan) |->
                              IF Now(fan[i])
                              THEN [set |-> TRUE, value |-> now[fan[i]].value]
                              ELSE EmptySlot]
          /\ threw' = [k \in Keys |->
                         k \in Range(fan) /\ Now(k) /\ began[k].out.kind = "throw"]
          /\ caughtRotate' = [k \in Keys |->
                         IF k \in Range(fan) /\ Now(k) /\ now[k].rotate THEN 1 ELSE 0]
          /\ mirror' = [k \in Cursors |->
                          IF k \in Range(fan) /\ Now(k) /\ now[k].rotate
                          THEN Rotate(mirror[k]) ELSE mirror[k]]
          /\ rotCnt' = [k \in Cursors |->
                          IF k \in Range(fan) /\ Now(k) /\ now[k].rotate
                          THEN Count(mirror[k], rotCnt[k], 1) ELSE rotCnt[k]]
          /\ call' = [k \in Cursors |->
                        IF k \in MirrorKeys \cap Range(fan) /\ ~Now(k)
                        THEN [call[k] EXCEPT !["search"] = began[k]]
                        ELSE call[k]]
          /\ sPhase' = IF rejects THEN "returned" ELSE "running"
          /\ sOut' = IF rejects THEN Rejected ELSE [kind |-> "none", items |-> <<>>]
    /\ resp' = [k \in Keys |-> <<>>]
    /\ lateFirst' = FALSE
    /\ UNCHANGED <<appVars, rev, api, config, built, stubbed, resolveVars>>

\* provider.search of provider k ended with o: its arrow function settles its
\* promise, and once the last one has, the awaiting search() returns.  (A
\* rejected promise would end the await at once, the others settling later.)
Settle(k, o) ==
    LET fan == FanOut(api, stubbed)
        s == AtFanOut(k, o)
        all == Fulfil(allResults, Position(fan, k), s.value)
        left == {j \in Range(fan) : task[j] = "pending"} \ {k}
    IN /\ task' = [task EXCEPT ![k] = "settled"]
       /\ allResults' = all
       /\ threw' = [threw EXCEPT ![k] = (o.kind = "throw")]
       /\ caughtRotate' = [caughtRotate EXCEPT ![k] = @ + IF s.rotate THEN 1 ELSE 0]
       /\ resp' = [resp EXCEPT ![k] = o.items]
       /\ lateFirst' = (lateFirst \/
                            \E i \in 1..(Position(fan, k) - 1) : task[fan[i]] = "pending")
       /\ sPhase' = IF s.rejected \/ left = {} THEN "returned" ELSE sPhase
       /\ sOut' = IF sPhase = "returned" THEN sOut
                  ELSE IF s.rejected THEN Rejected
                  ELSE IF left = {} THEN Returned(all) ELSE sOut

\* YouTubei, Audiomack, SoundCloud: the provider's own try/catch turns every
\* failure into [], so the call ends with the records of some answer
SettlePlain(k) ==
    /\ sPhase # "idle" /\ ~stubbed
    /\ k \notin MirrorKeys
    /\ task[k] = "pending"
    /\ \E p \in SearchPayloads :
          Settle(k, Items(ToRecords(p, SourceTag(k), ProviderName(k))))
    /\ UNCHANGED <<appVars, rev, api, config, mirrorVars, stubbed, resolveVars>>

\* a test double: returns records or throws
SettleStub(k) ==
    /\ sPhase # "idle" /\ stubbed
    /\ task[k] = "pending"
    /\ \E o \in {Thrown} \cup {Items(ToRecords(p, "stub", "Other")) : p \in SearchPayloads} :
          Settle(k, o)
    /\ UNCHANGED <<appVars, rev, api, config, mirrorVars, stubbed, resolveVars>>

\* the network answers the request of mirror k; its search runs on, and when
\* it ends, so does the arrow function (with rotate() after a throw)
SettleMirror(k) ==
    /\ sPhase # "idle" /\ ~stubbed
    /\ k \in MirrorKeys
    /\ task[k] = "pending"
    /\ call[k]["search"].st = "fetch"
    /\ \E ans \in Answers(k, "search") :
         LET n == Answer(rev, k, mirror[k], call[k]["search"], ans)
             again == n.c.st = "done" /\ AtFanOut(k, n.c.out).rotate
         IN /\ mirror' = [mirror EXCEPT ![k] = IF again THEN Rotate(n.m) ELSE n.m]
            /\ rotCnt' = [rotCnt EXCEPT
                            ![k] = Count(mirror[k], @, n.rot + IF again THEN 1 ELSE 0)]
            /\ IF n.c.st = "done"
               THEN /\ call' = [call EXCEPT ![k]["search"] = IdleCall]
                    /\ Settle(k, n.c.out)
               ELSE /\ call' = [call EXCEPT ![k]["search"] = n.c]
                    /\ UNCHANGED <<sPhase, task, allResults, resp, threw, lateFirst,
                                    caughtRotate, sOut>>
    /\ UNCHANGED <<appVars, rev, api, config, built, stubbed, resolveVars>>

\* the caller has the result; the api object is ready for the next search
SearchDone ==
    /\ sPhase = "returned"
    /\ \A k \in Keys : task[k] # "pending"
    /\ sPhase' = "idle"
    /\ task' = [k \in Keys |-> "none"]
    /\ allResults' = <<>>
    /\ resp' = [k \in Keys |-> <<>>]
    /\ threw' = [k \in Keys |-> FALSE]
    /\ lateFirst' = FALSE
    /\ caughtRotate' = [k \in Keys |-> 0]
    /\ sOut' = [kind |-> "none", items |-> <<>>]
    /\ call' = NoCalls
    /\ UNCHANGED <<appVars, rev, api, config, built, mirror, rotCnt, stubbed, resolveVars>>

SearchNext ==
    \/ SearchStart
    \/ \E k \in Keys : SettlePlain(k) \/ SettleStub(k) \/ SettleMirror(k)
    \/ SearchDone

SearchSpec == SearchInit /\ [][SearchNext]_vars

(***************************************************************************)
(* Claims about the Aggregator (SearchSpec).                               *)
(***************************************************************************)
\* the providers' results of this search, stamped, in provider order
Concatenation ==
    LET fan == FanOut(api, stubbed)
    IN Flat([i \in 1..Len(fan) |-> Stamp(resp[fan[i]], ProviderName(fan[i]))])

\* the deduplication key of the data model: (lowercased title, trackId)
Pair(r) == <<ToLowerCase(r.title), r.videoId>>

SearchReturned == sPhase = "returned" /\ sOut.kind = "items"

\* C1: the returned sequence never holds two records with the same
\* (lowercased title, trackId); every record in it is the first record of
\* its key in the concatenation (provider order, then the provider's own
\* order), and the first record of every key of the concatenation is kept,
\* so that every key present yields exactly one output record.
C1_DedupKeepsFirst ==
    SearchReturned =>
        LET out == sOut.items
            cat == Concatenation
        IN /\ \A m, n \in 1..Len(out) : m # n => Pair(out[m]) # Pair(out[n])
           /\ \A n \in 1..Len(out) :
                \E i \in 1..Len(cat) :
                    /\ cat[i] = out[n]
                    /\ \A j \in 1..(i - 1) : Pair(cat[j]) # Pair(cat[i])
           /\ \A i \in 1..Len(cat) :
                (\A j \in 1..(i - 1) : Pair(cat[j]) # Pair(cat[i])) =>
                    \E n \in 1..Len(out) : out[n] = cat[i]

\* C2: when a provider's search threw, the call still returns (it does not
\* reject) and every record the other providers returned is in the output,
\* itself or the earlier record it was deduplicated against.
C2_FanOutIsolation ==
    (sPhase = "returned" /\ \E j \in Keys : threw[j]) =>
        /\ sOut.kind = "items"
        /\ \A k \in Range(FanOut(api, stubbed)) :
             ~threw[k] =>
                \A i \in 1..Len(resp[k]) :
                    \E n \in 1..Len(sOut.items) : Key(sOut.items[n]) = Key(resp[k][i])

\* a class of the repository threw (a "pwa" mirror) and the records of
\* another provider were returned
C2_OneThrewOthersKept ==
    /\ SearchReturned /\ ~stubbed
    /\ \E j \in Keys : threw[j]
    /\ \E k \in Keys : ~threw[k] /\ resp[k] # <<>>
    /\ sOut.items # <<>>

AllThrew == \A k \in Range(FanOut(api, stubbed)) : CanSearch(k) => threw[k]

\* C3: when every search-capable provider threw, search returns the empty
\* sequence and raises nothing.
C3_AllThrowGivesEmpty ==
    (sPhase = "returned" /\ AllThrew) => sOut = [kind |-> "items", items |-> <<>>]

C3_EveryProviderThrew ==
    /\ sPhase = "returned"
    /\ AllThrew
    /\ \A k \in Range(FanOut(api, stubbed)) : task[k] = "settled"

\* C10: whatever the order in which the providers' calls completed, the
\* output is the deduplicated concatenation of the providers' results taken
\* in declaration order.
C10_CompletionOrderFree ==
    sPhase = "returned" => sOut = [kind |-> "items", items |-> Merge(Concatenation)]

\* a provider declared later completed first, and two providers contributed
\* different records
C10_LaterCompletedFirst ==
    /\ SearchReturned /\ lateFirst
    /\ \E k, j \in Keys : resp[k] # <<>> /\ resp[j] # <<>> /\ resp[k] # resp[j]
    /\ Len(sOut.items) >= 2

(***************************************************************************)
(* The Resolver: YtPuttyApi.resolveStream, PwaApi.resolveStream and        *)
(* MusicApp.resolveStream.                                                 *)
(***************************************************************************)
Hints == {"YT", "AM"}

\* PwaApi: const primaryProviders = sourceHint === 'AM' ? ['am'] : ['pi', 'iv']
Primary(h) == IF h = "AM" THEN <<"am">> ELSE <<"pi", "iv">>

\* a resolver that stops after the first provider of its order
FirstOnly(a, h) ==
    IF a = "PwaApi" THEN Primary(h)
    ELSE <<Head(SelectSeq(Providers(a, FALSE), CanResolve))>>

\* a fallback phase that does not skip the primary providers
PrimaryAgain(a, h) ==
    IF a = "PwaApi" THEN Primary(h) \o Providers(a, FALSE)
    ELSE SelectSeq(Providers(a, FALSE), CanResolve)

\* the providers whose resolve a call invokes, in order, if none yields a URL.
\* YtPuttyApi and MusicApp: the providers with canResolve(), in insertion order
\* (the hint is ignored).  PwaApi: the primary providers of the hint, then
\* every other entry of this.providers, canResolve() not being asked.
TrialOrder(a, h) ==
    IF a = "PwaApi"
    THEN LET Secondary(k) == k \notin Range(Primary(h))
         IN Primary(h) \o SelectSeq(Providers(a, FALSE), Secondary)
    ELSE SelectSeq(Providers(a, FALSE), CanResolve)

\* the catch blocks: PwaApi's fallback loop has an empty one
CatchRotates(a, h, k) == a # "PwaApi" \/ k \in Range(Primary(h))

\* a resolve that answers "no stream" instead of failing
ResolveGivesNull == Null

\* BaseProvider.resolve: throw new Error("Not implemented")
BaseResolve == Thrown

\* a loop that never returns from inside
KeepGoing(o) == "next"

\* if (url) return url;
Decide(o) == IF o.kind = "url" THEN "return" ELSE "next"

\* YtPuttyProvider.resolve: every failure is caught and answered with null
YpResolve(ans) ==
    IF ans.kind = "ok" /\ Len(AudioOf("iv", ans.streams)) > 0
    THEN Url(Best(AudioOf("iv", ans.streams)).url)
    ELSE Null

\* The run of resolveStream from one await to the next, on a record st of
\* the provider objects (m, cnt, call) and the call's own state.
\* Run: the loop is at the provider at the head of st.order.
\* After: that provider's resolve ended with o.
RECURSIVE Run(_, _, _), After(_, _, _, _, _)
Run(a, h, st) ==
    IF st.order = <<>> THEN [st EXCEPT !.phase = "returned", !.out = Null]
    ELSE LET k == Head(st.order)
             st1 == [st EXCEPT !.invoked = Append(@, k)]
         IN IF k \in MirrorKeys
            THEN LET c == Begin(RevOf(a), st.m[k], "resolve")
                 IN IF c.st = "fetch"
                    THEN [st1 EXCEPT !.call[k]["resolve"] = c]
                    ELSE After(a, h, st1, k, c.out)
            ELSE IF k = "yp" THEN st1
            ELSE After(a, h, st1, k, BaseResolve)

After(a, h, st, k, o) ==
    LET st1 == [st EXCEPT !.outcome[k] = o]
        rot == o.kind = "throw" /\ HasRotate(k) /\ CatchRotates(a, h, k)
        st2 == IF rot
               THEN [st1 EXCEPT !.m[k] = Rotate(@),
                                !.cnt[k] = Count(st1.m[k], @, 1),
                                !.rotated = @ \cup {k}]
               ELSE st1
    IN IF Decide(o) = "return"
       THEN [st1 EXCEPT !.phase = "returned", !.out = o]
       ELSE Run(a, h, [st2 EXCEPT !.order = Tail(@)])

Now ==
    [m |-> mirror, cnt |-> rotCnt, call |-> call, order |-> order,
     invoked |-> invoked, outcome |-> outcome, rotated |-> rotated,
     phase |-> rPhase, out |-> rOut]

Becomes(st) ==
    /\ mirror' = st.m
    /\ rotCnt' = st.cnt
    /\ call' = st.call
    /\ order' = st.order
    /\ invoked' = st.invoked
    /\ outcome' = st.outcome
    /\ rotated' = st.rotated
    /\ rPhase' = st.phase
    /\ rOut' = st.out

(***************************************************************************)
(* Specification ResolveSpec: resolveStream called again and again on one  *)
(* api object, with either hint.                                           *)
(***************************************************************************)
ResolveInit ==
    /\ \E a \in {"YtPuttyApi", "PwaApi", "MusicApp"} : ApiInit(a)
    /\ SearchIdle
    /\ ResolveIdle
    /\ AppIdle

\* resolveStream(videoId, sourceHint) up to its first await on the network
ResolveStart(h) ==
    /\ rPhase = "idle"
    /\ hint' = h
    /\ Becomes(Run(api, h, [Now EXCEPT !.phase = "running",
                                       !.order = TrialOrder(api, h)]))
    /\ heard' = [k \in Keys |-> NoAnswer]
    /\ UNCHANGED <<appVars, rev, api, config, built, searchVars>>

\* the network answers the request of the mirror being tried
ResolveAnswerMirror(k) ==
    /\ rPhase = "running"
    /\ order # <<>> /\ Head(order) = k
    /\ k \in MirrorKeys
    /\ call[k]["resolve"].st = "fetch"
    /\ \E ans \in Answers(k, "resolve") :
         LET n == Answer(rev, k, mirror[k], call[k]["resolve"], ans)
             st == [Now EXCEPT !.m[k] = n.m, !.cnt[k] = Count(mirror[k], @, n.rot)]
         IN /\ heard' = [heard EXCEPT ![k] = ans]
            /\ IF n.c.st = "fetch"
               THEN Becomes([st EXCEPT !.call[k]["resolve"] = n.c])
               ELSE Becomes(After(api, hint, [st EXCEPT !.call[k]["resolve"] = IdleCall],
                                  k, n.c.out))
    /\ UNCHANGED <<appVars, rev, api, config, built, hint, searchVars>>

\* the network answers the request of the HTML-scraping provider
ResolveAnswerYp ==
    /\ rPhase = "running"
    /\ order # <<>> /\ Head(order) = "yp"
    /\ \E ans \in Answers("iv", "resolve") :
         /\ heard' = [heard EXCEPT !["yp"] = ans]
         /\ Becomes(After(api, hint, Now, "yp", YpResolve(ans)))
    /\ UNCHANGED <<appVars, rev, api, config, built, hint, searchVars>>

\* the caller has the result; the api object is ready for the next call
ResolveDone ==
    /\ rPhase = "returned"
    /\ rPhase' = "idle"
    /\ order' = <<>>
    /\ invoked' = <<>>
    /\ outcome' = [k \in Keys |-> NoOut]
    /\ rotated' = {}
    /\ rOut' = NoOut
    /\ heard' = [k \in Keys |-> NoAnswer]
    /\ UNCHANGED <<appVars, rev, api, config, mirrorVars, hint, searchVars>>

\* provider.resolve(id) called on a provider of the api object that does not
\* define resolve: the promise it returns is rejected
ProviderResolve(k) ==
    /\ rPhase = "idle"
    /\ k \in Range(Providers(api, FALSE))
    /\ k \notin MirrorKeys \cup {"yp"}
    /\ direct' = [key |-> k, out |-> BaseResolve]
    /\ UNCHANGED <<compositeVars, credentialVars, playerVars, workerVars, rev, api, config, mirrorVars,
                   searchVars, resolveVars>>

ResolveNext ==
    \/ \E k \in Keys : ProviderResolve(k)
    \/ \E h \in Hints : ResolveStart(h)
    \/ \E k \in MirrorKeys : ResolveAnswerMirror(k)
    \/ ResolveAnswerYp
    \/ ResolveDone

ResolveSpec == ResolveInit /\ [][ResolveNext]_vars

(***************************************************************************)
(* Claims on the Resolver                                                  *)
(***************************************************************************)
Failed(k) == outcome[k].kind \in {"throw", "null"}

ResolveCapable == {k \in Range(Providers(api, FALSE)) : CanResolve(k)}

\* C4: Resolver short-circuit.  In every variant the providers invoked in a
\* call are an initial part of the trial order, every provider invoked before
\* the last one failed, and a provider that returned a URL ends the call:
\* the call has returned exactly that URL, so no provider after it is invoked.
C4_ShortCircuit ==
    rPhase # "idle" =>
        /\ Len(invoked) <= Len(TrialOrder(api, hint))
        /\ invoked = SubSeq(TrialOrder(api, hint), 1, Len(invoked))
        /\ \A i \in 1..(Len(invoked) - 1) : Failed(invoked[i])
        /\ \A k \in Keys : outcome[k].kind = "url" =>
              /\ rPhase = "returned"
              /\ rOut = outcome[k]
              /\ k = invoked[Len(invoked)]
        /\ (rPhase = "returned" /\ rOut.kind = "url") =>
              /\ invoked # <<>>
              /\ outcome[invoked[Len(invoked)]] = rOut

\* a call returned the URL of its second provider, after the first failed,
\* and left later providers of the trial order alone
C4_SecondProviderAnswered ==
    /\ rPhase = "returned"
    /\ rOut.kind = "url"
    /\ Len(invoked) >= 2
    /\ Len(invoked) < Len(TrialOrder(api, hint))
    /\ outcome[invoked[Len(invoked)]] = rOut

\* C5: the Resolver returns none only after resolve has been invoked on
\* every resolve-capable provider and each of them threw or returned none.
C5_NoneOnlyAfterAllTried ==
    (rPhase = "returned" /\ rOut.kind # "url") =>
        /\ rOut = Null
        /\ \A k \in ResolveCapable : k \in Range(invoked) /\ Failed(k)

\* a call returned none after one resolve-capable provider threw and
\* another returned none
C5_AllTriedAndFailed ==
    /\ rPhase = "returned"
    /\ rOut = Null
    /\ Cardinality(ResolveCapable) >= 2
    /\ \E k \in ResolveCapable : outcome[k].kind = "throw"
    /\ \E k \in ResolveCapable : outcome[k].kind = "null"

(***************************************************************************)
(* Claims about the order and the merge step of the Aggregator             *)
(* (SearchSpec).                                                           *)
(***************************************************************************)
\* s can be had from t by deleting entries
RECURSIVE IsSubsequence(_, _)
IsSubsequence(s, t) ==
    IF s = <<>> THEN TRUE
    ELSE IF t = <<>> THEN FALSE
    ELSE IF Head(s) = Head(t) THEN IsSubsequence(Tail(s), Tail(t))
    ELSE IsSubsequence(s, Tail(t))

\* where the key of record r is first seen in the concatenation
FirstSeen(cat, r) ==
    CHOOSE i \in 1..Len(cat) :
        /\ Pair(cat[i]) = Pair(r)
        /\ \A j \in 1..(i - 1) : Pair(cat[j]) # Pair(r)

\* C11: the output of search is a subsequence of the concatenation of the
\* providers' results in insertion order: no record is invented or
\* reordered, and the keys appear in the order they are first seen.
C11_SubsequenceInFirstSeenOrder ==
    SearchReturned =>
        LET out == sOut.items
            cat == Concatenation
        IN /\ IsSubsequence(out, cat)
           /\ \A n \in 1..Len(out) : \E i \in 1..Len(cat) : cat[i] = out[n]
           /\ \A m, n \in 1..Len(out) :
                m < n => FirstSeen(cat, out[m]) < FirstSeen(cat, out[n])

\* a search dropped a record that stands between two records it kept, the
\* kept ones coming from different providers
C11_DroppedInBetween ==
    /\ SearchReturned
    /\ LET out == sOut.items
           cat == Concatenation
       IN \E i, j, k \in 1..Len(cat) :
            /\ i < j /\ j < k
            /\ cat[i].provider # cat[k].provider
            /\ \E n \in 1..Len(out) : out[n] = cat[i]
            /\ \A n \in 1..Len(out) : Pair(out[n]) = Pair(cat[j]) => out[n] # cat[j]
            /\ \E n \in 1..Len(out) : out[n] = cat[k] /\ Pair(cat[k]) # Pair(cat[j])

\* C12: dedup idempotence: the merge step applied to the output of a search
\* (itself the merge of the concatenation) gives that output back.
C12_MergeIdempotent ==
    SearchReturned =>
        /\ sOut.items = Merge(Concatenation)
        /\ Merge(sOut.items) = sOut.items

\* the merge had a key to drop more than once
C12_KeyThreeTimes ==
    /\ SearchReturned
    /\ sOut.items # <<>>
    /\ \E i, j, k \in 1..Len(Concatenation) :
         /\ i < j /\ j < k
         /\ Key(Concatenation[i]) = Key(Concatenation[j])
         /\ Key(Concatenation[j]) = Key(Concatenation[k])

(***************************************************************************)
(* Claims about the hint of the Resolver (ResolveSpec).                    *)
(***************************************************************************)
\* C13: in a resolve call of YtPuttyApi or PwaApi with hint 'AM', the
\* audio-platform provider (am) is the first provider whose resolve is
\* invoked, and a URL it returns is what the call returns.
C13_HintHonoured ==
    (api \in {"YtPuttyApi", "PwaApi"} /\ rPhase # "idle" /\ hint = "AM") =>
        /\ invoked # <<>> => invoked[1] = "am"
        /\ outcome["am"].kind = "url" => (rPhase = "returned" /\ rOut = outcome["am"])

(***************************************************************************)
(* Claims about failures of the remote service (MirrorSpec).               *)
(***************************************************************************)
\* the call has sent a request, so what ends it is the answer of the network
Requested(c) == c.st = "done" /\ c.log # <<>>

\* C14: a search call that met a remote failure (no answer, a non-2xx
\* status, a malformed payload) does not throw: it returns a sequence.
C14_SearchNeverThrows ==
    \A k \in MirrorKeys :
        LET c == call[k]["search"]
        IN (Built(k) /\ Requested(c)) => c.out.kind = "items"

\* C15: a resolve call that met a remote failure does not throw: it returns
\* a URL or none.
C15_ResolveNeverThrows ==
    \A k \in MirrorKeys :
        LET c == call[k]["resolve"]
        IN (Built(k) /\ Requested(c)) => c.out.kind \in {"url", "null"}

(***************************************************************************)
(* Specification OverlapSpec: one mirror provider object on which search   *)
(* and resolve calls overlap (an Aggregator search and a Resolver resolve  *)
(* in flight together); each call runs from await to await.  The provider  *)
(* has its default endpoint list.                                          *)
(***************************************************************************)
OverlapInit ==
    /\ api = "provider"
    /\ rev \in {"lib", "pwa"}
    /\ config = EmptyObject
    /\ \E k \in MirrorKeys :
         /\ built = [j \in Cursors |-> IF j = k THEN "built" ELSE "absent"]
         /\ mirror = [j \in Cursors |->
                         IF j = k THEN NewMirror(rev, k, config) ELSE NotBuilt]
    /\ call = NoCalls
    /\ rotCnt = [k \in Cursors |-> 0]
    /\ SearchIdle
    /\ ResolveIdle
    /\ AppIdle

\* provider.search(query) / provider.resolve(videoId) runs to its first
\* await, whatever the provider's other call is doing
OverlapStart(k, op) ==
    /\ built[k] = "built"
    /\ call[k][op].st = "idle"
    /\ call' = [call EXCEPT ![k][op] = Begin(rev, mirror[k], op)]
    /\ UNCHANGED <<appVars, rev, api, config, built, mirror, rotCnt, searchVars, resolveVars>>

OverlapNext ==
    \E k \in MirrorKeys : \E op \in Ops :
        \/ OverlapStart(k, op)
        \/ NetAnswer(k, op)
        \/ Collect(k, op)

OverlapSpec == OverlapInit /\ [][OverlapNext]_vars

\* every endpoint the call went on to is the successor of the endpoint it
\* had read before (a resolve may also repeat the endpoint, see C6)
SuccessorSteps(c, len) ==
    \A i \in 1..(Len(c.log) - 1) :
        \/ c.log[i + 1] = (c.log[i] + 1) % len
        \/ c.op = "resolve" /\ c.log[i + 1] = c.log[i]

\* C16: no call changes currentIndex between another in-flight call's
\* reading of the current endpoint and that call's own rotate(): the
\* endpoint a call reaches by its own rotate() is always the successor of
\* the endpoint it read.
C16_NoInterference ==
    \A k \in MirrorKeys : \A op \in Ops :
        (Built(k) /\ Length(k) >= 1) => SuccessorSteps(call[k][op], Length(k))

(***************************************************************************)
(* Specification SearchLiveSpec: Aggregator.search over the provider       *)
(* classes, with the guarantee a timeout gives: a request that carries an  *)
(* abort signal is answered (by the service or by the timeout, which       *)
(* rejects the fetch).  A request without one may stay pending for ever.   *)
(***************************************************************************)
\* the fetch options of provider k's requests.  The mirrors pass
\* getTimeoutFetchOptions(5000) ("lib": a signal only where
\* AbortSignal.timeout is supported) or { signal: AbortSignal.timeout(5000) }
\* ("pwa"); YouTubei, Audiomack and SoundCloud pass no signal.
HasTimeout(r, k, supported) == k \in MirrorKeys /\ (r = "lib" => supported)

SearchLiveInit == SearchInit /\ ~stubbed

SearchLiveNext ==
    \/ SearchStart
    \/ \E k \in Keys : SettlePlain(k) \/ SettleMirror(k)
    \/ SearchDone

SearchLiveSpec ==
    /\ SearchLiveInit
    /\ [][SearchLiveNext]_vars
    /\ \A k \in Keys : WF_vars(HasTimeout(rev, k, TRUE) /\ SettleMirror(k))

\* C17: every request is bounded by a timeout, so a search that is waiting
\* for its providers eventually returns, even when an endpoint never answers.
C17_SearchReturns == (sPhase = "running") ~> (sPhase = "returned")

(***************************************************************************)
(* Claims about the providers the Resolver touches (ResolveSpec).          *)
(***************************************************************************)
\* C18: whenever a provider tried by the Resolver threw or returned none,
\* the Resolver has called that provider's rotate() (if it has one) by the
\* time it goes on.
C18_RotateOnEveryFailure ==
    rPhase # "idle" =>
        \A k \in Range(invoked) : (Failed(k) /\ HasRotate(k)) => k \in rotated

\* C19: in every Resolver variant and for every hint, resolve is invoked
\* only on providers with canResolve() true.
C19_OnlyResolveCapable ==
    rPhase # "idle" => \A k \in Range(invoked) : CanResolve(k)

(***************************************************************************)
(* Claims about the fan-out of the Aggregator (SearchSpec).                *)
(***************************************************************************)
\* the promises of the running search that belong to provider k
Invocations(k) == {i \in 1..Len(allResults) : FanOut(api, stubbed)[i] = k}

\* C20: a search invokes search exactly once on every provider of the
\* provider set with canSearch() true, and on no provider with canSearch()
\* false.
C20_FanOutToSearchCapable ==
    sPhase # "idle" =>
        /\ Len(allResults) = Len(FanOut(api, stubbed))
        /\ \A k \in Keys :
             IF k \in Range(Providers(api, stubbed)) /\ CanSearch(k)
             THEN task[k] # "none" /\ Cardinality(Invocations(k)) = 1
             ELSE task[k] = "none" /\ Invocations(k) = {}

\* a search of YtPuttyApi over the provider classes has returned: the five
\* search-capable providers were asked, the AI gallery provider was not
C20_GalleryLeftOut ==
    /\ api = "YtPuttyApi" /\ ~stubbed
    /\ sPhase = "returned"
    /\ "ai" \in Range(Providers(api, stubbed)) /\ ~CanSearch("ai")
    /\ task["ai"] = "none"
    /\ \A k \in {"yt", "am", "pi", "iv", "sc"} : task[k] = "settled"

(***************************************************************************)
(* The composite providers: AIGalleryProvider.search and                   *)
(* SimilarSongsProvider.search.                                            *)
(***************************************************************************)
Composites == {"AIGalleryProvider", "SimilarSongsProvider"}

CompositeKey(a) == IF a = "AIGalleryProvider" THEN "ai" ELSE "sm"

\* this.galleries: the ids of the curated galleries
GalleryIds == {"trending_suno", "top_udio", "ai_lofi", "ai_synthwave"}

\* a gallery id, a free query, a query with the "similar:" prefix
Queries == {"trending_suno", "lofi", "similar:lofi"}

\* const searchProviders = [new InvidiousProvider(this.config),
\*     new PipedProvider(this.config), new YtPuttyProvider(this.config),
\*     new YouTubeiProvider(this.config)]
SearchProviders == <<"iv", "pi", "yp", "yt">>

\* a loop that is never left early
NeverBreaks(results) == FALSE

\* if (results.length > 0) break;
FoundSome(results) == Len(results) > 0

\* results.map(r => ({...r, source, provider, galleryId / originalQuery}))
Relabel(a, q, results) ==
    [i \in 1..Len(results) |->
        IF a = "AIGalleryProvider"
        THEN [title |-> results[i].title, videoId |-> results[i].videoId,
              source |-> "AI", provider |-> "AI Gallery",
              galleryId |-> IF q \in GalleryIds THEN q ELSE "custom"]
        ELSE [title |-> results[i].title, videoId |-> results[i].videoId,
              source |-> "SM", provider |-> "Similar Music",
              originalQuery |-> q]]

\* YtPuttyProvider.search: a page without the data, a failed request and a
\* thrown error all end in return []
YpSearch(ans) ==
    IF ans.kind = "ok"
    THEN Items(ToRecords(ans.items, SourceTag("yp"), ProviderName("yp")))
    ELSE Exhausted("search")

\* YouTubeiProvider.search: if (!res.ok) return []; catch: return []
YtSearch(ans) ==
    IF ans.kind = "ok"
    THEN Items(ToRecords(ans.items, SourceTag("yt"), ProviderName("yt")))
    ELSE Exhausted("search")

\* try { results = await provider.search(q) } catch (_e) { results = [] }
Caught(o) == IF o.kind = "throw" THEN <<>> ELSE o.items

\* The run of a composite search from one await to the next, on a record st
\* of the sub-provider objects (m, cnt, call) and the call's own state.
\* CRun: the loop is at the sub-provider at the head of st.order.
\* CAfter: that sub-provider's search ended with o.
RECURSIVE CRun(_, _, _), CAfter(_, _, _, _, _)
CRun(a, q, st) ==
    IF st.order = <<>>
    THEN LET results == IF st.tried = <<>> THEN <<>>
                        ELSE Caught(st.got[st.tried[Len(st.tried)]])
         IN [st EXCEPT !.phase = "returned", !.out = Relabel(a, q, results)]
    ELSE LET k == Head(st.order)
             st1 == [st EXCEPT !.tried = Append(@, k)]
         IN IF k \in MirrorKeys
            THEN LET c == Begin("lib", st.m[k], "search")
                 IN IF c.st = "fetch"
                    THEN [st1 EXCEPT !.call[k]["search"] = c]
                    ELSE CAfter(a, q, st1, k, c.out)
            \* if (this.disabledInBrowser) return [];
            ELSE IF k = "yt" /\ st.disabled
            THEN CAfter(a, q, st1, k, Exhausted("search"))
            ELSE st1

CAfter(a, q, st, k, o) ==
    LET st1 == [st EXCEPT !.got[k] = o]
    IN IF FoundSome(Caught(o))
       THEN [st1 EXCEPT !.phase = "returned", !.out = Relabel(a, q, Caught(o))]
       ELSE CRun(a, q, [st1 EXCEPT !.order = Tail(@)])

CNow ==
    [m |-> mirror, cnt |-> rotCnt, call |-> call, order |-> cOrder,
     tried |-> cTried, got |-> cGot, phase |-> cPhase, out |-> cOut,
     disabled |-> disabledInBrowser]

CBecomes(st) ==
    /\ mirror' = st.m
    /\ rotCnt' = st.cnt
    /\ call' = st.call
    /\ cOrder' = st.order
    /\ cTried' = st.tried
    /\ cGot' = st.got
    /\ cPhase' = st.phase
    /\ cOut' = st.out

(***************************************************************************)
(* Specification CompositeSpec: search called again and again on one       *)
(* composite provider.                                                     *)
(***************************************************************************)
\* new AIGalleryProvider(config) / new SimilarSongsProvider(config)
CompositeInit ==
    /\ api \in Composites
    /\ rev = "lib"
    /\ config \in Configs
    /\ disabledInBrowser \in BOOLEAN
    /\ built = [k \in Cursors |-> "absent"]
    /\ mirror = [k \in Cursors |-> NotBuilt]
    /\ call = NoCalls
    /\ rotCnt = [k \in Cursors |-> 0]
    /\ SearchIdle
    /\ ResolveIdle
    /\ CompositeCallIdle
    /\ DirectIdle
    /\ CredentialIdle
    /\ PlayerIdle
    /\ WorkerIdle

\* search(query) up to its first await on the network: the sub-providers
\* are built anew in every call
CompositeStart(q) ==
    /\ cPhase = "idle"
    /\ cQuery' = q
    /\ built' = [k \in Cursors |-> IF k \in MirrorKeys THEN "built" ELSE "absent"]
    /\ CBecomes(CRun(api, q,
            [CNow EXCEPT !.phase = "running",
                         !.order = SearchProviders,
                         !.m = [k \in Cursors |->
                                  IF k \in MirrorKeys
                                  THEN NewMirror("lib", k, config) ELSE NotBuilt]]))
    /\ UNCHANGED <<rev, api, config, disabledInBrowser, direct, credentialVars, playerVars, workerVars,
                   searchVars, resolveVars>>

\* the network answers the request of the mirror being tried
CompositeAnswerMirror(k) ==
    /\ cPhase = "running"
    /\ cOrder # <<>> /\ Head(cOrder) = k
    /\ k \in MirrorKeys
    /\ call[k]["search"].st = "fetch"
    /\ \E ans \in Answers(k, "search") :
         LET n == Answer("lib", k, mirror[k], call[k]["search"], ans)
             st == [CNow EXCEPT !.m[k] = n.m, !.cnt[k] = Count(mirror[k], @, n.rot)]
         IN IF n.c.st = "fetch"
            THEN CBecomes([st EXCEPT !.call[k]["search"] = n.c])
            ELSE CBecomes(CAfter(api, cQuery,
                                 [st EXCEPT !.call[k]["search"] = IdleCall],
                                 k, n.c.out))
    /\ UNCHANGED <<rev, api, config, built, cQuery, disabledInBrowser, direct,
                   credentialVars, playerVars, workerVars, searchVars, resolveVars>>

\* the network answers the request of the HTML-scraping sub-provider
CompositeAnswerYp ==
    /\ cPhase = "running"
    /\ cOrder # <<>> /\ Head(cOrder) = "yp"
    /\ \E ans \in Answers("yp", "search") :
         CBecomes(CAfter(api, cQuery, CNow, "yp", YpSearch(ans)))
    /\ UNCHANGED <<rev, api, config, built, cQuery, disabledInBrowser, direct,
                   credentialVars, playerVars, workerVars, searchVars, resolveVars>>

\* the network answers the request of the primary-platform sub-provider
CompositeAnswerYt ==
    /\ cPhase = "running"
    /\ cOrder # <<>> /\ Head(cOrder) = "yt"
    /\ \E ans \in Answers("yt", "search") :
         CBecomes(CAfter(api, cQuery, CNow, "yt", YtSearch(ans)))
    /\ UNCHANGED <<rev, api, config, built, cQuery, disabledInBrowser, direct,
                   credentialVars, playerVars, workerVars, searchVars, resolveVars>>

\* the caller has the records; the sub-providers of the call are dropped
CompositeDone ==
    /\ cPhase = "returned"
    /\ cPhase' = "idle"
    /\ cQuery' = ""
    /\ cOrder' = <<>>
    /\ cTried' = <<>>
    /\ cGot' = [k \in Keys |-> NoOut]
    /\ cOut' = <<>>
    /\ built' = [k \in Cursors |-> "absent"]
    /\ mirror' = [k \in Cursors |-> NotBuilt]
    /\ call' = NoCalls
    /\ rotCnt' = [k \in Cursors |-> 0]
    /\ UNCHANGED <<rev, api, config, disabledInBrowser, direct, credentialVars, playerVars, workerVars,
                   searchVars, resolveVars>>

CompositeNext ==
    \/ \E q \in Queries : CompositeStart(q)
    \/ \E k \in MirrorKeys : CompositeAnswerMirror(k)
    \/ CompositeAnswerYp
    \/ CompositeAnswerYt
    \/ CompositeDone

CompositeSpec == CompositeInit /\ [][CompositeNext]_vars

\* the records a sub-provider's search handed to the composite
Handed(k) == IF cGot[k].kind = "throw" THEN <<>> ELSE cGot[k].items

\* the composite's own labels on record r, taken from record s
Relabelled(r, s) ==
    /\ r.title = s.title /\ r.videoId = s.videoId
    /\ r.source = SourceTag(CompositeKey(api))
    /\ r.provider = ProviderName(CompositeKey(api))
    /\ IF api = "AIGalleryProvider"
       THEN r.galleryId = (IF cQuery \in GalleryIds THEN cQuery ELSE "custom")
       ELSE r.originalQuery = cQuery

\* C21: a composite search invokes its sub-providers in the order Invidious,
\* Piped, HTML-scraping, primary-platform; every sub-provider invoked before
\* the last one handed over nothing; it stops at the first non-empty result,
\* so that no later sub-provider is invoked; it returns exactly the records
\* of the last sub-provider invoked, each relabelled with the composite's
\* source, provider and provenance; and it returns the empty list when every
\* sub-provider was empty or threw.
C21_FirstNonEmptySubProvider ==
    cPhase = "returned" =>
        LET n == Len(cTried)
        IN /\ n >= 1 /\ n <= Len(SearchProviders)
           /\ \A i \in 1..n : cTried[i] = SearchProviders[i]
           /\ \A i \in 1..(n - 1) : Handed(cTried[i]) = <<>>
           /\ n < Len(SearchProviders) => Handed(cTried[n]) # <<>>
           /\ Len(cOut) = Len(Handed(cTried[n]))
           /\ \A i \in 1..Len(cOut) : Relabelled(cOut[i], Handed(cTried[n])[i])
           /\ (\A k \in Range(SearchProviders) : Handed(k) = <<>>) => cOut = <<>>

\* the first two sub-providers were empty, the third one answered with
\* records, and the fourth was left alone
C21_ThirdSubProviderAnswered ==
    /\ cPhase = "returned"
    /\ cTried = <<"iv", "pi", "yp">>
    /\ Len(cOut) >= 2
    /\ cGot["yt"] = NoOut

\* C22: resolve on a provider whose capabilities.resolve is false, the two
\* composite providers included, never ends with a URL or with "no stream":
\* it fails, and the failure reaches whoever called it, the Resolver's loop
\* or a caller of the provider itself.
C22_ResolveIncapableFails ==
    /\ \A k \in Keys :
         ~CanResolve(k) /\ outcome[k] # NoOut => outcome[k].kind = "throw"
    /\ direct.key # "" /\ ~CanResolve(direct.key) => direct.out.kind = "throw"

\* resolve was called on the gallery provider itself, and it failed
C22_GalleryResolveFailed ==
    /\ direct.key = "ai" /\ direct.out.kind = "throw"
    /\ ~CanResolve("ai")

(***************************************************************************)
(* SoundCloudProvider.getClientId                                          *)
(***************************************************************************)
\* the bundles (script tags matching /app-*.js) a page may list
MaxBundles == 2

\* return "iZIs9mchV7lxS8AyEB769vUu8S9MSu9s";
DefaultClientId == "iZIs9mchV7lxS8AyEB769vUu8S9MSu9s"

\* the client_id values a bundle may carry
ClientIds == {"client-id-1", "client-id-2"}

\* what the network answers the page request with: the fetch rejects, or a
\* page listing some bundles
PageAnswers == {[kind |-> "fail", bundles |-> 0]}
                  \cup {[kind |-> "ok", bundles |-> n] : n \in 0..MaxBundles}

\* what it answers a bundle request with: the fetch rejects, or a script
\* with a client_id ("" when the pattern does not match)
BundleAnswers == {[kind |-> "fail", id |-> ""]}
                    \cup {[kind |-> "ok", id |-> c] : c \in ClientIds \cup {""}}

\* a provider that keeps no credential
NeverCached(cid) == FALSE

\* if (this.clientId)
Cached(cid) == cid # ""

Credential(c, id) == [c EXCEPT !.st = "done", !.out = [kind |-> "value", id |-> id]]

\* for (const match of bundleMatches) { const jsRes = await fetch(match[1]);
NextBundle(c) ==
    IF c.left > 0
    THEN [c EXCEPT !.st = "bundle", !.requests = @ + 1]
    ELSE Credential(c, DefaultClientId)

(***************************************************************************)
(* Specification CredentialSpec: getClientId called again and again on one *)
(* SoundCloudProvider, by callers whose calls overlap.                     *)
(***************************************************************************)
CredentialInit ==
    /\ api = "SoundCloudProvider"
    /\ rev \in {"lib", "pwa"}
    /\ config = EmptyObject
    /\ built = [k \in Cursors |-> "absent"]
    /\ mirror = [k \in Cursors |-> NotBuilt]
    /\ call = NoCalls
    /\ rotCnt = [k \in Cursors |-> 0]
    /\ SearchIdle
    /\ ResolveIdle
    /\ CompositeIdle
    /\ DirectIdle
    /\ PlayerIdle
    /\ WorkerIdle
    /\ CredentialIdle

\* getClientId() up to its first await
GetClientId(i) ==
    /\ idCall[i].st = "idle"
    /\ LET c == [IdleIdCall EXCEPT !.cached = clientId]
       IN idCall' = [idCall EXCEPT ![i] =
             IF Cached(clientId) THEN Credential(c, clientId)
             ELSE [c EXCEPT !.st = "page", !.requests = 1]]
    /\ UNCHANGED <<compositeVars, direct, playerVars, workerVars, clientId, rev, api, config, mirrorVars,
                   searchVars, resolveVars>>

\* the request for the page is answered
PageAnswer(i) ==
    /\ idCall[i].st = "page"
    /\ \E ans \in PageAnswers :
         idCall' = [idCall EXCEPT ![i] =
             IF ans.kind = "fail" THEN Credential(@, DefaultClientId)
             ELSE NextBundle([@ EXCEPT !.left = ans.bundles])]
    /\ UNCHANGED <<compositeVars, direct, playerVars, workerVars, clientId, rev, api, config, mirrorVars,
                   searchVars, resolveVars>>

\* the request for a bundle is answered
BundleAnswer(i) ==
    /\ idCall[i].st = "bundle"
    /\ \E ans \in BundleAnswers :
         CASE ans.kind = "fail" ->
                /\ idCall' = [idCall EXCEPT ![i] = Credential(@, DefaultClientId)]
                /\ UNCHANGED clientId
           [] ans.kind = "ok" /\ ans.id # "" ->
                /\ clientId' = ans.id
                /\ idCall' = [idCall EXCEPT ![i] =
                                 Credential([@ EXCEPT !.found = ans.id], ans.id)]
           [] OTHER ->
                /\ idCall' = [idCall EXCEPT ![i] = NextBundle([@ EXCEPT !.left = @ - 1])]
                /\ UNCHANGED clientId
    /\ UNCHANGED <<compositeVars, direct, playerVars, workerVars, rev, api, config, mirrorVars,
                   searchVars, resolveVars>>

\* the caller has the credential
CredentialTaken(i) ==
    /\ idCall[i].st = "done"
    /\ idCall' = [idCall EXCEPT ![i] = IdleIdCall]
    /\ UNCHANGED <<compositeVars, direct, playerVars, workerVars, clientId, rev, api, config, mirrorVars,
                   searchVars, resolveVars>>

CredentialNext ==
    \E i \in Callers :
        \/ GetClientId(i)
        \/ PageAnswer(i)
        \/ BundleAnswer(i)
        \/ CredentialTaken(i)

CredentialSpec == CredentialInit /\ [][CredentialNext]_vars

SearchCapable == {k \in Range(Providers(api, stubbed)) : CanSearch(k)}

\* C24: while a search of the Aggregator is under way the search of every
\* search-capable provider has been started (a mirror's request is in
\* flight, or its call is over), whatever the others have answered; and the
\* search has returned only when every one of them has completed.
C24_AllStartedThenJoined ==
    /\ sPhase # "idle" =>
         \A k \in SearchCapable :
            /\ task[k] \in {"pending", "settled"}
            /\ (k \in MirrorKeys /\ task[k] = "pending")
                  => call[k]["search"].st = "fetch"
    /\ sPhase = "returned" =>
         \A k \in Range(FanOut(api, stubbed)) : task[k] = "settled"

\* five providers have been started and none has answered yet
C24_FiveInFlight ==
    /\ sPhase = "running"
    /\ Cardinality(SearchCapable) >= 5
    /\ \A k \in SearchCapable : task[k] = "pending"

\* C25: a provider whose search threw at the fan-out boundary has had its
\* rotate() called by the Aggregator exactly once if it has a rotate()
\* (the mirror providers) and not at all otherwise, and its slot of the
\* joined results is empty; a provider whose search returned normally has
\* had no rotate() called by the Aggregator.
C25_RotateOnceOnThrow ==
    \A k \in Range(FanOut(api, stubbed)) :
        task[k] = "settled" =>
            IF threw[k]
            THEN /\ caughtRotate[k] = (IF k \in MirrorKeys THEN 1 ELSE 0)
                 /\ allResults[Position(FanOut(api, stubbed), k)].value = <<>>
            ELSE caughtRotate[k] = 0

\* one mirror threw and was rotated once, the other returned records
C25_OneMirrorThrew ==
    /\ sPhase = "returned"
    /\ threw["pi"] /\ caughtRotate["pi"] = 1
    /\ ~threw["iv"] /\ resp["iv"] # <<>> /\ caughtRotate["iv"] = 0

\* C26: a search or resolve call on a mirror provider has issued at most
\* instances.length network requests, in flight or over; every request in
\* flight is the one of a loop pass below that bound (request number
\* attempt + 1), so that each answer ends the call or uses up one pass.
C26_AtMostLengthRequests ==
    \A k \in Cursors : \A op \in Ops :
        LET c == call[k][op]
        IN (Built(k) /\ c.st # "idle") =>
              /\ Len(c.log) <= Length(k)
              /\ c.st = "fetch" => (c.attempt < Length(k) /\ Len(c.log) = c.attempt + 1)

\* a call on a list of three or more endpoints ended after every one of its
\* requests had failed, having issued exactly as many requests as endpoints
C26_EveryEndpointFailed ==
    \E k \in Cursors : \E op \in Ops :
        LET c == call[k][op]
        IN /\ Built(k) /\ Length(k) >= 3
           /\ c.st = "done" /\ ~c.out.answered
           /\ Len(c.log) = Length(k)

\* the call ended with what it was asked for: records of a response, a URL
Succeeded(c) ==
    \/ c.out.kind = "url"
    \/ c.out.kind = "items" /\ c.out.answered

\* the attempts of a call that is over which did not succeed
FailedAttempts(c) == IF Succeeded(c) THEN Len(c.log) - 1 ELSE Len(c.log)

\* C27: a search or resolve call on a mirror provider, run with no other
\* call or rotate() in between, sends its first request to the endpoint at
\* the currentIndex it found, and as it ends currentIndex equals (that
\* value + the number of failed attempts of the call) mod length; so a call
\* whose first attempt succeeds leaves currentIndex where it was.
CursorMovedByFailures(k, op) ==
    LET c == call'[k][op]
    IN (Built(k) /\ Length(k) >= 1 /\ call[k][op].st = "fetch" /\ c.alone) =>
          /\ c.log[1] = c.start
          /\ c.st = "done" =>
                mirror'[k].currentIndex = (c.start + FailedAttempts(c)) % Length(k)

C27_CursorMovesByFailures ==
    [][\A k \in MirrorKeys : \A op \in Ops : CursorMovedByFailures(k, op)]_vars

\* the audio-only descriptors of the response the provider heard last
AudioOnly(k) == {f \in Range(heard[k].streams) : f.type = "audio"}

\* C28: the URL that the resolve of a mirror or of the HTML-scraping
\* provider returned from a successful response is the URL of an audio-only
\* descriptor of that response whose bitrate no audio-only descriptor of the
\* response exceeds; and from a response without an audio-only descriptor
\* it returned no URL.
C28_BestAudioOnly ==
    \A k \in {"pi", "iv", "yp"} :
        /\ outcome[k].kind = "url" =>
              /\ heard[k].kind = "ok"
              /\ \E f \in AudioOnly(k) :
                    /\ f.url = outcome[k].url
                    /\ \A g \in AudioOnly(k) : g.bitrate <= f.bitrate
        /\ (outcome[k] # NoOut /\ heard[k].kind = "ok" /\ AudioOnly(k) = {})
              => outcome[k].kind # "url"

\* a response listed a video descriptor of a higher bitrate between two
\* audio-only ones, and the better audio-only one was returned
C28_VideoPassedOver ==
    \E k \in {"iv", "yp"} :
        /\ outcome[k].kind = "url" /\ outcome[k].url = AudioHi.url
        /\ Video \in Range(heard[k].streams)
        /\ Video.bitrate > AudioHi.bitrate

\* C29: within one resolveStream call no provider has its resolve invoked
\* twice; with PwaApi a provider tried in the primary phase is not tried
\* again in the fallback phase.
C29_AtMostOncePerProvider ==
    \A i, j \in 1..Len(invoked) : i # j => invoked[i] # invoked[j]

\* PwaApi went through both primary providers and then through the whole
\* fallback phase, five providers in all
C29_PrimaryThenFallback ==
    /\ api = "PwaApi" /\ rPhase = "returned"
    /\ Len(invoked) = 5
    /\ SubSeq(invoked, 1, 2) = Primary(hint)

(***************************************************************************)
(* MusicApp: the playlist and the track being played.                      *)
(***************************************************************************)
\* the longest list a provider answers with, and the range of the indexes
\* the handlers are called with
MaxTracks == 3

\* the track lists (videoIds) a search answers with
TrackLists == { <<>>, <<"v1">>, <<"v2", "v3">>, <<"v3", "v1", "v2">> }

Indexes == -1..MaxTracks

\* the player after playTrack(index):
\*   if (index < 0 || index >= this.tracks.length) return;
\*   this.currentTrackIndex = index;
PlayedAt(list, cur, index) ==
    IF index < 0 \/ index >= Len(list) THEN cur ELSE index

\* a deleteTrack that leaves the index of the track being played alone
NoShift(cur, index) == IF index = cur THEN -1 ELSE cur

\* deleteTrack: if (index === this.currentTrackIndex) ... = -1;
\* else if (index < this.currentTrackIndex) this.currentTrackIndex--;
AfterDelete(cur, index) ==
    IF index = cur THEN -1
    ELSE IF index < cur THEN cur - 1
    ELSE cur

\* this.tracks.splice(index, 1) with a non-negative index
Splice(list, index) ==
    IF index >= Len(list) THEN list
    ELSE [i \in 1..(Len(list) - 1) |-> IF i <= index THEN list[i] ELSE list[i + 1]]

\* results.forEach(track => { if (!this.tracks.find(t => t.videoId ===
\* track.videoId)) this.tracks.push(track) })
RECURSIVE PushNew(_, _)
PushAll(list, results) == list \o results

PushNew(list, results) ==
    IF results = <<>> THEN list
    ELSE PushNew(IF Head(results) \in Range(list) THEN list
                 ELSE Append(list, Head(results)),
                 Tail(results))

(***************************************************************************)
(* Specification PlayerSpec: the handlers of one MusicApp, in any order.   *)
(***************************************************************************)
\* new MusicApp(): this.tracks = []; this.currentTrackIndex = -1;
\* loadCachedTracks() then puts the stored list in place
PlayerInit ==
    /\ api = "MusicApp"
    /\ rev = "lib"
    /\ config = EmptyObject
    /\ built = [k \in Cursors |-> "absent"]
    /\ mirror = [k \in Cursors |-> NotBuilt]
    /\ call = NoCalls
    /\ rotCnt = [k \in Cursors |-> 0]
    /\ SearchIdle
    /\ ResolveIdle
    /\ CompositeIdle
    /\ DirectIdle
    /\ CredentialIdle
    /\ tracks \in TrackLists
    /\ currentTrackIndex = -1
    /\ pendingOps = NoPendingOps
    /\ audioSrc = ""
    /\ plays = [c \in PlayCalls |-> IdlePlay]
    /\ NoSearches
    /\ WorkerIdle

PlayerFrame ==
    UNCHANGED <<compositeVars, direct, credentialVars, workerVars, rev, api, config,
                mirrorVars,
                searchVars, resolveVars, searchBusy, searches,
                terminalSelectionIndex>>

AppSearchFrame ==
    UNCHANGED <<compositeVars, direct, credentialVars, workerVars, rev, api, config,
                mirrorVars,
                searchVars, resolveVars, pendingOps, audioSrc, plays,
                terminalSelectionIndex>>

\* playTrack(index)
PlayTrack(index) ==
    /\ currentTrackIndex' = PlayedAt(tracks, currentTrackIndex, index)
    /\ UNCHANGED <<tracks, pendingOps>>
    /\ UNCHANGED <<audioSrc, plays>>
    /\ PlayerFrame

\* playNext()
PlayNext ==
    /\ currentTrackIndex' =
          IF currentTrackIndex < Len(tracks) - 1
          THEN PlayedAt(tracks, currentTrackIndex, currentTrackIndex + 1)
          ELSE currentTrackIndex
    /\ UNCHANGED <<tracks, pendingOps>>
    /\ UNCHANGED <<audioSrc, plays>>
    /\ PlayerFrame

\* playPrevious()
PlayPrevious ==
    /\ currentTrackIndex' =
          IF currentTrackIndex > 0
          THEN PlayedAt(tracks, currentTrackIndex, currentTrackIndex - 1)
          ELSE currentTrackIndex
    /\ UNCHANGED <<tracks, pendingOps>>
    /\ UNCHANGED <<audioSrc, plays>>
    /\ PlayerFrame

\* deleteTrack(index), index being that of a rendered row or of the
\* terminal's selection
DeleteTrack(index) ==
    /\ index >= 0
    /\ tracks' = Splice(tracks, index)
    /\ currentTrackIndex' = AfterDelete(currentTrackIndex, index)
    \* this.audioPlayer.pause(); this.audioPlayer.src = '';
    /\ audioSrc' = IF index = currentTrackIndex THEN "" ELSE audioSrc
    /\ UNCHANGED <<pendingOps, plays>>
    /\ PlayerFrame

\* clearPlaylist()
ClearPlaylist ==
    /\ Len(tracks) # 0
    /\ tracks' = <<>>
    /\ currentTrackIndex' = -1
    /\ audioSrc' = ""
    /\ UNCHANGED <<pendingOps, plays>>
    /\ PlayerFrame

\* search() up to its await: hasPlaybackContext is currentTrackIndex >= 0 or
\* a player that holds a source (either, when no track is current)
AppSearchStart ==
    /\ pendingOps.search = "idle"
    /\ \E loaded \in BOOLEAN :
         pendingOps' = [pendingOps EXCEPT !.search =
             IF currentTrackIndex >= 0 \/ loaded THEN "context" ELSE "fresh"]
    /\ UNCHANGED <<tracks, currentTrackIndex>>
    /\ UNCHANGED <<audioSrc, plays>>
    /\ PlayerFrame

\* the first provider with results has answered (none: every provider was
\* empty or failed); new tracks are pushed, and the first one added is
\* played if there was no playback context
AppSearchAnswer ==
    /\ pendingOps.search # "idle"
    /\ \E results \in TrackLists :
         LET list == PushNew(tracks, results)
         IN /\ tracks' = list
            /\ currentTrackIndex' =
                  IF Len(list) > Len(tracks) /\ pendingOps.search = "fresh"
                  THEN PlayedAt(list, currentTrackIndex, Len(tracks))
                  ELSE currentTrackIndex
    /\ pendingOps' = [pendingOps EXCEPT !.search = "idle"]
    /\ UNCHANGED <<audioSrc, plays>>
    /\ PlayerFrame

\* loadGallery(id) up to its await
LoadGalleryStart ==
    /\ ~pendingOps.gallery
    /\ pendingOps' = [pendingOps EXCEPT !.gallery = TRUE]
    /\ UNCHANGED <<tracks, currentTrackIndex>>
    /\ UNCHANGED <<audioSrc, plays>>
    /\ PlayerFrame

\* the gallery provider's search has answered: this.tracks = results
LoadGalleryAnswer ==
    /\ pendingOps.gallery
    /\ \E results \in TrackLists : tracks' = results
    /\ pendingOps' = [pendingOps EXCEPT !.gallery = FALSE]
    /\ UNCHANGED currentTrackIndex
    /\ UNCHANGED <<audioSrc, plays>>
    /\ PlayerFrame

\* loadSimilar(index) up to its await
LoadSimilarStart(index) ==
    /\ ~pendingOps.similar
    /\ ~(index < 0 \/ index >= Len(tracks))
    /\ pendingOps' = [pendingOps EXCEPT !.similar = TRUE]
    /\ UNCHANGED <<tracks, currentTrackIndex>>
    /\ UNCHANGED <<audioSrc, plays>>
    /\ PlayerFrame

\* the similar-songs provider's search has answered
LoadSimilarAnswer ==
    /\ pendingOps.similar
    /\ \E results \in TrackLists :
         IF Len(results) > 0
         THEN tracks' = results /\ currentTrackIndex' = -1
         ELSE UNCHANGED <<tracks, currentTrackIndex>>
    /\ pendingOps' = [pendingOps EXCEPT !.similar = FALSE]
    /\ UNCHANGED <<audioSrc, plays>>
    /\ PlayerFrame

PlayerNext ==
    \/ \E index \in Indexes : PlayTrack(index)
    \/ PlayNext
    \/ PlayPrevious
    \/ \E index \in Indexes : DeleteTrack(index)
    \/ ClearPlaylist
    \/ AppSearchStart
    \/ AppSearchAnswer
    \/ LoadGalleryStart
    \/ LoadGalleryAnswer
    \/ \E index \in Indexes : LoadSimilarStart(index)
    \/ LoadSimilarAnswer

PlayerSpec == PlayerInit /\ [][PlayerNext]_vars

\* C30: in MusicApp, after any sequence of playTrack, deleteTrack,
\* clearPlaylist, search, loadGallery, loadSimilar, playNext and
\* playPrevious, currentTrackIndex is -1 or a valid index into tracks.
C30_CurrentTrackIndexValid ==
    \/ currentTrackIndex = -1
    \/ currentTrackIndex >= 0 /\ currentTrackIndex < Len(tracks)

(***************************************************************************)
(* Specification PlaySpec: the legacy MusicApp, whose playTrack looks the  *)
(* track up in the cache and resolves a stream for it, with playTrack      *)
(* calls that overlap and deleteTrack in between.                          *)
(***************************************************************************)
PlayInit ==
    /\ api = "MusicApp"
    /\ rev = "cli"
    /\ config = EmptyObject
    /\ built = [k \in Cursors |-> "absent"]
    /\ mirror = [k \in Cursors |-> NotBuilt]
    /\ call = NoCalls
    /\ rotCnt = [k \in Cursors |-> 0]
    /\ SearchIdle
    /\ ResolveIdle
    /\ CompositeIdle
    /\ DirectIdle
    /\ CredentialIdle
    /\ tracks \in TrackLists
    /\ currentTrackIndex = -1
    /\ pendingOps = NoPendingOps
    /\ audioSrc = ""
    /\ plays = [c \in PlayCalls |-> IdlePlay]
    /\ NoSearches
    /\ WorkerIdle

\* playTrack(index) up to `await this.getFromDBCache(track.videoId)`
LegacyPlayTrack(c, index) ==
    /\ plays[c].st = "idle"
    /\ ~(index < 0 \/ index >= Len(tracks))
    /\ currentTrackIndex' = index
    /\ plays' = [plays EXCEPT ![c] = [st |-> "cache", videoId |-> tracks[index + 1]]]
    /\ UNCHANGED <<tracks, pendingOps, audioSrc>>
    /\ PlayerFrame

\* the cache lookup has ended: a blob is played at once, without one the
\* call goes on to `await this.resolveStream(track.videoId)`
CacheAnswer(c) ==
    /\ plays[c].st = "cache"
    /\ \E cachedBlob \in BOOLEAN :
         IF cachedBlob
         THEN /\ audioSrc' = plays[c].videoId
              /\ plays' = [plays EXCEPT ![c] = IdlePlay]
         ELSE /\ plays' = [plays EXCEPT ![c].st = "resolve"]
              /\ UNCHANGED audioSrc
    /\ UNCHANGED <<tracks, currentTrackIndex, pendingOps>>
    /\ PlayerFrame

\* resolveStream has ended: with a URL the player takes it, without one
\* ('No stream URL') the catch block reports a playback error
StreamAnswer(c) ==
    /\ plays[c].st = "resolve"
    /\ \E streamUrl \in BOOLEAN :
         audioSrc' = IF streamUrl THEN plays[c].videoId ELSE audioSrc
    /\ plays' = [plays EXCEPT ![c] = IdlePlay]
    /\ UNCHANGED <<tracks, currentTrackIndex, pendingOps>>
    /\ PlayerFrame

PlaySpecNext ==
    \/ \E c \in PlayCalls : \E index \in Indexes : LegacyPlayTrack(c, index)
    \/ \E c \in PlayCalls : CacheAnswer(c)
    \/ \E c \in PlayCalls : StreamAnswer(c)
    \/ \E index \in Indexes : DeleteTrack(index)

PlaySpec == PlayInit /\ [][PlaySpecNext]_vars

\* the videoId of the track that index cur designates in list ("" for none)
TrackAt(list, cur) == IF cur >= 0 /\ cur < Len(list) THEN list[cur + 1] ELSE ""

\* C31: deleteTrack(i) with i other than currentTrackIndex leaves
\* currentTrackIndex designating the track it designated before; with i
\* equal to currentTrackIndex it stops the playback (the player holds no
\* source) and sets currentTrackIndex to -1.
C31_NowPlayingStable ==
    [][\A index \in Indexes :
          DeleteTrack(index) =>
             IF index = currentTrackIndex
             THEN currentTrackIndex' = -1 /\ audioSrc' = ""
             ELSE TrackAt(tracks', currentTrackIndex') = TrackAt(tracks, currentTrackIndex)
      ]_vars

\* the first track of <<v3, v1, v2>> was deleted while v1 was the current
\* track: v1 is still the current track, now at index 0, and still loaded
C31_DeletedBeforeCurrent ==
    /\ tracks = <<"v1", "v2">>
    /\ currentTrackIndex = 0
    /\ audioSrc = "v1"
    /\ \A c \in PlayCalls : plays[c].st = "idle"

\* C32: once every pending playTrack call has completed, the audio source
\* the player holds is that of the track at currentTrackIndex, however the
\* cache lookups and stream resolutions of overlapping calls were ordered.
C32_SourceOfCurrentTrack ==
    ((\A c \in PlayCalls : plays[c].st = "idle")
        /\ currentTrackIndex >= 0 /\ audioSrc # "")
      => audioSrc = TrackAt(tracks, currentTrackIndex)


\* ---------------------------------------------------------------------
\* MusicApp.search (current class): the providers are asked one after the
\* other; two calls may overlap, one from the Enter key of the search
\* field and one from a terminal command, neither of which looks at the
\* disabled search button.

\* what a provider's search() hands back: a list of video ids
ResultLists == TrackLists \cup { <<"v2", "v2">>, <<"v4">> }

\* for (const provider of this.providers) { if (!provider.canSearch()) continue; ...
AppSearchOrder == SelectSeq(Providers("MusicApp", FALSE), CanSearch)

NeverStops(results) == FALSE

\* if (results && results.length > 0)
HasResults(results) == Len(results) > 0

\* what the provider handed back, as the walk is remembered
Kind(results) == IF Len(results) = 0 THEN "empty" ELSE "items"

\* the state of the walk once the provider at the head of the order was of
\* no use: the next provider is being asked, or the loop is over
NextProvider(s) ==
    IF Len(s.order) > 1
    THEN [s EXCEPT !.order = Tail(@), !.queried = Append(@, s.order[2])]
    ELSE [s EXCEPT !.order = <<>>, !.st = "done"]

AppSearchInit ==
    /\ api = "MusicApp"
    /\ rev = "lib"
    /\ config = EmptyObject
    /\ built = [k \in Cursors |-> "absent"]
    /\ mirror = [k \in Cursors |-> NotBuilt]
    /\ call = NoCalls
    /\ rotCnt = [k \in Cursors |-> 0]
    /\ SearchIdle
    /\ ResolveIdle
    /\ CompositeIdle
    /\ DirectIdle
    /\ CredentialIdle
    /\ tracks \in TrackLists
    /\ currentTrackIndex \in {-1, Len(tracks) - 1}
    /\ pendingOps = NoPendingOps
    /\ audioSrc = ""
    /\ plays = [c \in PlayCalls |-> IdlePlay]
    /\ NoSearches
    /\ WorkerIdle

\* search() up to the first provider's answer: setSearchBusy(true), the
\* playback context is noted, the first search-capable provider is asked
MusicSearchStart(c) ==
    /\ searches[c].st \in {"idle", "done"}
    /\ searchBusy' = TRUE
    /\ searches' = [searches EXCEPT ![c] =
          [IdleSearch EXCEPT
             !.st = "await",
             !.order = AppSearchOrder,
             !.queried = <<AppSearchOrder[1]>>,
             !.context = (currentTrackIndex >= 0 \/ audioSrc # "")]]
    /\ UNCHANGED <<tracks, currentTrackIndex>>
    /\ AppSearchFrame

\* the provider asked has thrown: catch, provider.rotate() where there is
\* one, and on to the next provider
MusicSearchThrew(c) ==
    /\ searches[c].st = "await"
    /\ LET s == searches[c]
           k == Head(s.order)
           t == NextProvider([s EXCEPT !.got[k] = "throw",
                                       !.rotated = IF HasRotate(k) THEN Append(@, k) ELSE @])
       IN /\ searches' = [searches EXCEPT ![c] = t]
          \* finally { this.setSearchBusy(false) }
          /\ searchBusy' = IF t.st = "done" THEN FALSE ELSE searchBusy
    /\ UNCHANGED <<tracks, currentTrackIndex>>
    /\ AppSearchFrame

\* the provider asked has answered with a list of tracks
MusicSearchAnswer(c) ==
    /\ searches[c].st = "await"
    /\ \E results \in ResultLists :
         LET s == searches[c]
             k == Head(s.order)
             list == PushNew(tracks, results)
             addedCount == Len(list) - Len(tracks)
             firstAddedIndex == IF addedCount > 0 THEN Len(tracks) ELSE -1
         IN IF HasResults(results)
            THEN /\ tracks' = list
                 /\ IF addedCount > 0 /\ ~s.context
                    \* await this.playTrack(firstAddedIndex)
                    THEN /\ currentTrackIndex' = PlayedAt(list, currentTrackIndex, firstAddedIndex)
                         /\ searches' = [searches EXCEPT ![c] =
                               [s EXCEPT !.got[k] = Kind(results), !.added = addedCount,
                                         !.st = "playing"]]
                         /\ UNCHANGED searchBusy
                    \* return; finally { this.setSearchBusy(false) }
                    ELSE /\ searches' = [searches EXCEPT ![c] =
                               [s EXCEPT !.got[k] = Kind(results), !.added = addedCount,
                                         !.st = "done"]]
                         /\ searchBusy' = FALSE
                         /\ UNCHANGED currentTrackIndex
            ELSE LET t == NextProvider([s EXCEPT !.got[k] = Kind(results)])
                 IN /\ searches' = [searches EXCEPT ![c] = t]
                    /\ searchBusy' = IF t.st = "done" THEN FALSE ELSE searchBusy
                    /\ UNCHANGED <<tracks, currentTrackIndex>>
    /\ AppSearchFrame

\* the playTrack(firstAddedIndex) that search() awaits has settled:
\* return; finally { this.setSearchBusy(false) }
MusicSearchPlayed(c) ==
    /\ searches[c].st = "playing"
    /\ searches' = [searches EXCEPT ![c].st = "done"]
    /\ searchBusy' = FALSE
    /\ UNCHANGED <<tracks, currentTrackIndex>>
    /\ AppSearchFrame

\* the terminal's `play <query>`: this.search().then(() => { if
\* (this.tracks.length > 0) this.playTrack(this.tracks.length - 1) })
TerminalPlayThen ==
    /\ searches["terminal"].st = "done"
    /\ Len(tracks) > 0
    /\ currentTrackIndex # Len(tracks) - 1
    /\ currentTrackIndex' = PlayedAt(tracks, currentTrackIndex, Len(tracks) - 1)
    /\ UNCHANGED <<tracks, searchBusy, searches>>
    /\ AppSearchFrame

AppSearchNext ==
    \/ \E c \in SearchCallers : MusicSearchStart(c)
    \/ \E c \in SearchCallers : MusicSearchThrew(c)
    \/ \E c \in SearchCallers : MusicSearchAnswer(c)
    \/ \E c \in SearchCallers : MusicSearchPlayed(c)
    \/ TerminalPlayThen

AppSearchSpec == AppSearchInit /\ [][AppSearchNext]_vars

NoDuplicates(list) == Cardinality(Range(list)) = Len(list)

\* C33: search never appends a track whose videoId the playlist already
\* holds: a playlist without duplicate videoIds has none after any step of
\* any interleaving of search() calls, the tracks it held stay where they
\* were, and what was appended was not in it.
C33_NoDuplicateAppended ==
    [][/\ NoDuplicates(tracks) => NoDuplicates(tracks')
       /\ Len(tracks') >= Len(tracks)
       /\ SubSeq(tracks', 1, Len(tracks)) = tracks
       /\ \A i \in (Len(tracks) + 1)..Len(tracks') : tracks'[i] \notin Range(tracks)
      ]_vars

\* two searches have each added one track to <<v1>>, out of results that
\* held a videoId twice or one the playlist held already
C33_BothSearchesAdded ==
    /\ tracks = <<"v1", "v2", "v3">>
    /\ \A c \in SearchCallers : searches[c].st = "done" /\ searches[c].added = 1

\* the providers of a walk whose search has thrown, in the order asked
ThrewOf(s) == SelectSeq(s.queried, LAMBDA k : s.got[k] = "throw" /\ HasRotate(k))

C35_BusyWhileInFlight ==
    searchBusy <=> \E c \in SearchCallers : searches[c].st \in {"await", "playing"}


\* ---------------------------------------------------------------------
\* The terminal view of MusicApp: the arrow keys move a selection over the
\* playlist, Tab plays the selected track, Delete deletes it.

TerminalFrame ==
    UNCHANGED <<compositeVars, direct, credentialVars, workerVars, rev, api, config,
                mirrorVars,
                searchVars, resolveVars, pendingOps, plays, searchBusy, searches>>

\* the playlists the terminal view is opened on
StoredLists == TrackLists \cup { <<"v1", "v2", "v3", "v4">> }

TerminalInit ==
    /\ api = "MusicApp"
    /\ rev = "lib"
    /\ config = EmptyObject
    /\ built = [k \in Cursors |-> "absent"]
    /\ mirror = [k \in Cursors |-> NotBuilt]
    /\ call = NoCalls
    /\ rotCnt = [k \in Cursors |-> 0]
    /\ SearchIdle
    /\ ResolveIdle
    /\ CompositeIdle
    /\ DirectIdle
    /\ CredentialIdle
    /\ tracks \in StoredLists
    /\ currentTrackIndex = -1
    /\ pendingOps = NoPendingOps
    /\ audioSrc = ""
    /\ plays = [c \in PlayCalls |-> IdlePlay]
    /\ NoSearches
    /\ WorkerIdle

\* case 'ArrowUp': if (this.terminalSelectionIndex > 0) this.terminalSelectionIndex--
ArrowUp ==
    /\ terminalSelectionIndex > 0
    /\ terminalSelectionIndex' = terminalSelectionIndex - 1
    /\ UNCHANGED <<tracks, currentTrackIndex, audioSrc>>
    /\ TerminalFrame

\* case 'ArrowDown': if (this.terminalSelectionIndex < this.tracks.length - 1) ...++
ArrowDown ==
    /\ terminalSelectionIndex < Len(tracks) - 1
    /\ terminalSelectionIndex' = terminalSelectionIndex + 1
    /\ UNCHANGED <<tracks, currentTrackIndex, audioSrc>>
    /\ TerminalFrame

\* case 'Tab': if (this.tracks[this.terminalSelectionIndex]) this.playTrack(...)
TabKey ==
    /\ terminalSelectionIndex < Len(tracks)
    /\ currentTrackIndex # terminalSelectionIndex
    /\ currentTrackIndex' = PlayedAt(tracks, currentTrackIndex, terminalSelectionIndex)
    /\ UNCHANGED <<tracks, audioSrc, terminalSelectionIndex>>
    /\ TerminalFrame

\* case 'Delete': this.deleteTrack(this.terminalSelectionIndex)
DeleteKey ==
    /\ Len(tracks) > 0
    /\ DeleteTrack(terminalSelectionIndex)

\* the delete button of a row of the playlist
DeleteRow ==
    \E index \in 0..(Len(tracks) - 1) : DeleteTrack(index)

TerminalNext ==
    \/ ArrowUp
    \/ ArrowDown
    \/ TabKey
    \/ DeleteKey
    \/ DeleteRow
    \/ ClearPlaylist

TerminalSpec == TerminalInit /\ [][TerminalNext]_vars

\* C36: after any sequence of arrow keys and deletions the terminal's
\* selection is 0 when the playlist is empty and otherwise an index of a
\* track of the playlist.
C36_SelectionValid ==
    IF Len(tracks) = 0
    THEN terminalSelectionIndex = 0
    ELSE terminalSelectionIndex \in 0..(Len(tracks) - 1)


\* ---------------------------------------------------------------------
\* The service worker's fetch handler. A request is told apart by its
\* method, its origin, whether its URL is one of the API's, and its
\* destination (a navigation counts as destination "document"); the cache
\* is keyed by the request.

Requests ==
    [method : {"GET", "POST"}, sameOrigin : BOOLEAN, api : BOOLEAN,
     destination : Destinations]

\* what the network gives: a rejection, a 200 response, another status
NetworkOutcomes == {"reject", "ok", "bad"}

\* the requests of ASSETS_TO_CACHE_IMMEDIATELY, cached by the install handler
Precached ==
    { [NoRequest EXCEPT !.destination = d] :
         d \in {"document", "script", "style", "manifest", "image"} }

\* the three early returns of the handler: no respondWith
Handled(r) == r.method = "GET" /\ r.sameOrigin /\ ~r.api

Strategy(r) ==
    CASE r.destination = "document" -> "html"
      [] r.destination \in {"script", "style", "manifest"} -> "static"
      [] r.destination \in {"image", "font"} -> "asset"
      [] OTHER -> "default"

AsIs(response) == response

\* .then(response => response || OFFLINE_RESPONSE)
OrOffline(response) == IF response = "null" THEN "offline" ELSE response

ServiceWorkerInit ==
    /\ api = "MusicApp"
    /\ rev = "lib"
    /\ config = EmptyObject
    /\ built = [k \in Cursors |-> "absent"]
    /\ mirror = [k \in Cursors |-> NotBuilt]
    /\ call = NoCalls
    /\ rotCnt = [k \in Cursors |-> 0]
    /\ SearchIdle
    /\ ResolveIdle
    /\ CompositeIdle
    /\ DirectIdle
    /\ CredentialIdle
    /\ PlayerIdle
    /\ sw = IdleWorker
    /\ swCache \in {{}, Precached}
    /\ logger = [maxEntries |-> DefaultMaxEntries, history |-> <<>>]
    /\ persisted = <<>>

ServiceWorkerFrame ==
    UNCHANGED <<compositeVars, direct, credentialVars, playerVars, rev, api, config,
                mirrorVars, searchVars, resolveVars, logger, persisted>>

\* the synchronous part of the handler: the early returns, or respondWith
\* with the first request of the strategy under way
FetchEvent(r) ==
    /\ sw.phase \in {"idle", "done"}
    /\ ~sw.revalidating
    /\ sw' = IF ~Handled(r)
             THEN [IdleWorker EXCEPT !.req = r, !.phase = "done", !.answer = "browser"]
             ELSE [IdleWorker EXCEPT
                     !.req = r,
                     !.phase = IF Strategy(r) \in {"html", "default"} THEN "fetch"
                               ELSE "match"]
    /\ UNCHANGED swCache
    /\ ServiceWorkerFrame

\* fetch(event.request) has settled
NetworkSettled(o) ==
    /\ sw.phase = "fetch"
    /\ LET r == sw.req
           st == Strategy(r)
       IN IF o = "reject"
          THEN /\ sw' = IF st \in {"html", "default"}
                        \* .catch(() => caches.match(event.request))
                        THEN [sw EXCEPT !.net = o, !.phase = "fallback"]
                        \* .catch(() => null)
                        ELSE [sw EXCEPT !.net = o, !.phase = "done",
                                        !.answer = OrOffline("null")]
               /\ UNCHANGED swCache
          ELSE /\ sw' = [sw EXCEPT !.net = o, !.phase = "done",
                                   !.answer = OrOffline("network")]
               /\ swCache' = IF st = "asset" \/ (st \in {"html", "static"} /\ o = "ok")
                             THEN swCache \cup {r}
                             ELSE swCache
    /\ ServiceWorkerFrame

\* caches.match / cache.match has settled: the cached response or undefined
CacheSettled ==
    /\ sw.phase \in {"match", "fallback"}
    /\ LET r == sw.req
           found == r \in swCache
           response == IF found THEN "cached" ELSE "null"
       IN sw' = IF sw.phase = "fallback"
                THEN [sw EXCEPT !.hit = IF found THEN "hit" ELSE "miss",
                                !.phase = "done", !.answer = OrOffline(response)]
                ELSE IF found
                THEN [sw EXCEPT !.hit = "hit", !.phase = "done",
                                !.answer = OrOffline(response),
                                \* the fetchPromise of stale-while-revalidate
                                !.revalidating = (Strategy(r) = "static")]
                \* cachedResponse || fetchPromise, response || fetch(...)
                ELSE [sw EXCEPT !.hit = "miss", !.phase = "fetch"]
    /\ UNCHANGED swCache
    /\ ServiceWorkerFrame

\* the background fetch of stale-while-revalidate has settled
Revalidated(o) ==
    /\ sw.revalidating
    /\ sw' = [sw EXCEPT !.revalidating = FALSE]
    /\ swCache' = IF o = "ok" THEN swCache \cup {sw.req} ELSE swCache
    /\ ServiceWorkerFrame

ServiceWorkerNext ==
    \/ \E r \in Requests : FetchEvent(r)
    \/ \E o \in NetworkOutcomes : NetworkSettled(o)
    \/ CacheSettled
    \/ \E o \in NetworkOutcomes : Revalidated(o)

ServiceWorkerSpec == ServiceWorkerInit /\ [][ServiceWorkerNext]_vars

\* C37: a request that is not a same-origin GET, or is one of the API's,
\* is left to the browser without any fetch or cache lookup of the worker;
\* every other request is answered with the network's response, a cached
\* response or the 503 'Offline' response, never null or undefined: the
\* network's response only when the network gave one, a cached one only
\* on a cache hit, 'Offline' only when the network failed and the cache
\* missed.
C37_NeverNullResponse ==
    /\ sw.answer \in {"none", "browser", "network", "cached", "offline"}
    /\ sw.phase \notin {"idle", "done"} => Handled(sw.req) /\ sw.answer = "none"
    /\ sw.phase = "done" =>
         IF ~Handled(sw.req)
         THEN sw.answer = "browser" /\ sw.net = "none" /\ sw.hit = "none"
         ELSE /\ sw.answer \in {"network", "cached", "offline"}
              /\ sw.answer = "network" => sw.net \in {"ok", "bad"}
              /\ sw.answer = "cached" => sw.hit = "hit"
              /\ sw.answer = "offline" => sw.net = "reject" /\ sw.hit = "miss"

\* a script was asked for, the cache did not hold it and the network
\* failed: the worker answered 'Offline'
C37_OfflineAnswered ==
    /\ sw.phase = "done"
    /\ sw.req = [NoRequest EXCEPT !.destination = "script"]
    /\ sw.hit = "miss"
    /\ sw.net = "reject"
    /\ sw.answer = "offline"


\* ---------------------------------------------------------------------
\* The Logger: every log call appends an entry to the list kept under
\* storageKey in localStorage and keeps the latest maxEntries of them.

\* the largest maxEntries a Logger is constructed with
MaxKept == 3

\* the number of log calls followed
MaxLogCalls == 4

\* debug(), info(), warn(), error()
Levels == {"DEBUG", "INFO", "WARN", "ERROR"}

\* the data of an entry: none given, or an Error object
Data == {"null", "error"}

Entries == [level : Levels, data : Data]

\* JSON.parse(JSON.stringify(entry)): an Error object comes back as {}
Stored(entry) == [entry EXCEPT !.data = IF @ = "error" THEN "{}" ELSE @]

Oldest(logs, maxEntries) ==
    IF Len(logs) > maxEntries THEN SubSeq(logs, 1, maxEntries) ELSE logs

\* if (logs.length > this.maxEntries) logs = logs.slice(logs.length - this.maxEntries)
Latest(logs, maxEntries) ==
    IF Len(logs) > maxEntries
    THEN SubSeq(logs, Len(logs) - maxEntries + 1, Len(logs))
    ELSE logs

LoggerInit ==
    /\ api = "MusicApp"
    /\ rev = "lib"
    /\ config = EmptyObject
    /\ built = [k \in Cursors |-> "absent"]
    /\ mirror = [k \in Cursors |-> NotBuilt]
    /\ call = NoCalls
    /\ rotCnt = [k \in Cursors |-> 0]
    /\ SearchIdle
    /\ ResolveIdle
    /\ CompositeIdle
    /\ DirectIdle
    /\ CredentialIdle
    /\ PlayerIdle
    /\ sw = IdleWorker
    /\ swCache = {}
    /\ \E maxEntries \in 1..MaxKept :
          logger = [maxEntries |-> maxEntries, history |-> <<>>]
    /\ persisted = <<>>

\* _log(level, message, data) and the _persist(entry) it ends with
Log(level, data) ==
    /\ Len(logger.history) < MaxLogCalls
    /\ LET entry == [level |-> level, data |-> data]
       IN /\ logger' = [logger EXCEPT !.history = Append(@, entry)]
          /\ persisted' = Latest(Append(persisted, Stored(entry)), logger.maxEntries)
    /\ UNCHANGED <<compositeVars, direct, credentialVars, playerVars, rev, api, config,
                   mirrorVars, searchVars, resolveVars, sw, swCache>>

LoggerNext ==
    \E level \in Levels, data \in Data : Log(level, data)

LoggerSpec == LoggerInit /\ [][LoggerNext]_vars

====
